---------------------------- MODULE Spec2Model ----------------------------
(***************************************************************************)
(* A model of the cloudpuff template compiler: TemplateState (variable     *)
(* resolution, collapsing, condition naming), the StringParser block       *)
(* stack, the TemplateReader variables-document pass, macro calls and the  *)
(* TemplateCompiler.load_string pass.                                      *)
(*                                                                         *)
(* Values.  A Python string is a sequence of symbols, a symbol being one   *)
(* character or one reserved word ("Fn::If", "Ref", ...).  Every value of  *)
(* a document tree is a record whose field names tell its Python type:     *)
(*   [str |-> s]              str                                          *)
(*   [var |-> path, id |-> n] VarReference(name); path is name.split('.'), *)
(*                            id is the identity of the object             *)
(*   [map |-> pairs]          dict / OrderedDict, pairs in insertion order *)
(*   [list |-> xs, tag |-> t] list ("list"), VarsStringsList ("vars"),     *)
(*                            UncollapsibleList ("uncoll")                 *)
(*   [cond |-> c]             IfCondition(c)                               *)
(***************************************************************************)
EXTENDS Integers, Sequences, FiniteSets, TLC

Str(s) == [str |-> s]
VarRef(path, id) == [var |-> path, id |-> id]
Map(pairs) == [map |-> pairs]
List(tag, xs) == [list |-> xs, tag |-> tag]
Cond(c) == [cond |-> c]

IsStr(n) == "str" \in DOMAIN n
IsVar(n) == "var" \in DOMAIN n
IsMap(n) == "map" \in DOMAIN n
IsList(n) == "list" \in DOMAIN n
IsCond(n) == "cond" \in DOMAIN n

Sym(w) == Str(<<w>>)
\* 'Fn::%s' % func_name
FnName(w) == Str(<<"Fn::", w>>)
EmptyStr == Str(<<>>)
NoValue == Map(<< <<Sym("Ref"), Str(<<"AWS::NoValue">>)>> >>)

Last(s) == s[Len(s)]
Front(s) == SubSeq(s, 1, Len(s) - 1)

(***************************************************************************)
(* Dictionaries.  d[k] = v on a dict keeps the position of an existing key *)
(* and appends a new one.                                                  *)
(***************************************************************************)
RECURSIVE KeyIndexFrom(_, _, _)
KeyIndexFrom(pairs, k, i) ==
    IF i > Len(pairs) THEN 0
    ELSE IF pairs[i][1] = k THEN i
    ELSE KeyIndexFrom(pairs, k, i + 1)

KeyIndex(pairs, k) == KeyIndexFrom(pairs, k, 1)

HasKey(m, k) == KeyIndex(m.map, k) # 0

Get(m, k) == m.map[KeyIndex(m.map, k)][2]

SetItem(m, k, v) ==
    LET i == KeyIndex(m.map, k)
    IN  IF i = 0 THEN Map(Append(m.map, <<k, v>>))
        ELSE Map([m.map EXCEPT ![i] = <<k, v>>])

RECURSIVE UpdateFrom(_, _, _)
UpdateFrom(m, pairs, i) ==
    IF i > Len(pairs) THEN m
    ELSE UpdateFrom(SetItem(m, pairs[i][1], pairs[i][2]), pairs, i + 1)

\* dict.update(other)
Update(m, other) == UpdateFrom(m, other.map, 1)

Keys(m) == [i \in 1..Len(m.map) |-> m.map[i][1]]

(***************************************************************************)
(* Objects.  Lists are mutable and shared by reference: an entry is either *)
(* a value ([v |-> node]) or a handle ([h |-> root, p |-> path]) to the    *)
(* object at a path below the tree being processed ("t") or below the      *)
(* variables dictionary used as scope ("s").  The store st holds both      *)
(* roots together with the TemplateState fields a walk changes:            *)
(*   tree, scope, same (tree and scope are one object), unresolved         *)
(*   (unresolved_variables), conds (if_conditions), err (the exception     *)
(*   raised, "" when none).                                                *)
(***************************************************************************)
ByVal(n) == [v |-> n]
Handle(h, p) == [h |-> h, p |-> p]
IsHandle(e) == "h" \in DOMAIN e

Child(n, i) ==
    IF IsMap(n) THEN n.map[i][2]
    ELSE IF IsList(n) THEN n.list[i]
    ELSE n.cond

RECURSIVE At(_, _)
At(root, p) ==
    IF p = <<>> THEN root ELSE At(Child(root, Head(p)), Tail(p))

RECURSIVE SetAt(_, _, _)
SetAt(root, p, v) ==
    IF p = <<>> THEN v
    ELSE LET i == Head(p)
             sub == SetAt(Child(root, i), Tail(p), v)
         IN  IF IsMap(root)
                 THEN Map([root.map EXCEPT ![i] = <<root.map[i][1], sub>>])
             ELSE IF IsList(root)
                 THEN [root EXCEPT !.list[i] = sub]
             ELSE Cond(sub)

RootOf(h, st) == IF h = "s" \/ st.same THEN st.scope ELSE st.tree

Val(e, st) == IF IsHandle(e) THEN At(RootOf(e.h, st), e.p) ELSE e.v

Put(st, e, v) ==
    IF e.h = "s" \/ st.same
        THEN [st EXCEPT !.scope = SetAt(st.scope, e.p, v)]
        ELSE [st EXCEPT !.tree = SetAt(st.tree, e.p, v)]

\* A string is immutable, so an entry for a string is the string itself.
Norm(e, st) == IF IsStr(Val(e, st)) THEN ByVal(Val(e, st)) ELSE e

ChildE(e, i, st) ==
    Norm(IF IsHandle(e) THEN Handle(e.h, Append(e.p, i))
         ELSE ByVal(Child(e.v, i)), st)

NewStore(tree, scope, same, unresolved, conds) ==
    [tree |-> tree, scope |-> scope, same |-> same,
     unresolved |-> unresolved, conds |-> conds, err |-> ""]

Raise(st, what) == [st EXCEPT !.err = what]

(***************************************************************************)
(* TemplateState.resolve: a dotted-path lookup below the scope.            *)
(***************************************************************************)
RECURSIVE ResolveFrom(_, _, _)
ResolveFrom(path, e, st) ==
    IF path = <<>> THEN [err |-> "", e |-> Norm(e, st)]
    ELSE LET d == Val(e, st)
         IN  IF ~IsMap(d) THEN [err |-> "TypeError", e |-> e]
             ELSE LET i == KeyIndex(d.map, Sym(Head(path)))
                  IN  IF i = 0 THEN [err |-> "KeyError", e |-> e]
                      ELSE ResolveFrom(Tail(path), ChildE(e, i, st), st)

resolve(name, st) == ResolveFrom(name, Handle("s", <<>>), st)

(***************************************************************************)
(* TemplateState.collapse_variables.                                       *)
(***************************************************************************)
RECURSIVE Chars(_)
Chars(s) == IF s = <<>> THEN <<>> ELSE <<Str(<<Head(s)>>)>> \o Chars(Tail(s))

\* result[-1] += item, item a str
IAdd(result, item, st) ==
    LET last == Last(result)
        lv == Val(last, st)
    IN  IF IsStr(lv)
            THEN [result |-> [result EXCEPT ![Len(result)] =
                                  ByVal(Str(lv.str \o item.str))],
                  st |-> st]
        ELSE IF IsList(lv)
            THEN LET nv == [lv EXCEPT !.list = @ \o Chars(item.str)]
                 IN  IF IsHandle(last)
                         THEN [result |-> result, st |-> Put(st, last, nv)]
                         ELSE [result |-> [result EXCEPT ![Len(result)] =
                                               ByVal(nv)],
                               st |-> st]
        ELSE [result |-> result, st |-> Raise(st, "TypeError")]

\* "can_collapse = not isinstance(items, UncollapsibleList)"
CanCollapseAll(items) == TRUE

CanCollapse(items) == items.tag # "uncoll"

\* A collapse_next_string that is never set.
CollapseNextNever(resolved, can) == FALSE

\* collapse_next_string after an item: can_collapse_string when the item was
\* a reference that resolved, False otherwise.
CollapseNext(resolved, can) == resolved /\ can

CollapseStep(e, i, acc, can) ==
    LET st == acc.st
        raw == ChildE(e, i, st)
        rawv == Val(raw, st)
        r == IF IsVar(rawv) THEN resolve(rawv.var, st)
             ELSE [err |-> "none", e |-> raw]
        st1 == IF r.err = "KeyError"
                   THEN [st EXCEPT !.unresolved = @ \cup {rawv}]
               ELSE IF r.err = "TypeError" THEN Raise(st, "TypeError")
               ELSE st
        item == IF r.err = "" THEN r.e ELSE raw
        cs == IF r.err = "" THEN can ELSE acc.cs
        cns == CollapseNext(r.err = "", can)
        itemv == Val(item, st1)
    IN  IF st1.err # "" THEN [acc EXCEPT !.st = st1]
        ELSE IF IsStr(itemv)
            THEN IF cs /\ acc.result # <<>>
                     THEN LET a == IAdd(acc.result, itemv, st1)
                          IN  [result |-> a.result, cs |-> cns, st |-> a.st]
                     ELSE [result |-> Append(acc.result, ByVal(itemv)),
                           cs |-> cns, st |-> st1]
        ELSE [result |-> Append(acc.result, item), cs |-> FALSE, st |-> st1]

RECURSIVE CollapseFrom(_, _, _, _)
CollapseFrom(e, i, acc, can) ==
    IF acc.st.err # "" \/ i > Len(Val(e, acc.st).list) THEN acc
    ELSE CollapseFrom(e, i + 1, CollapseStep(e, i, acc, can), can)

\* The entries of the returned list and the store afterwards.
collapse_variables(e, st) ==
    CollapseFrom(e, 1, [result |-> <<>>, cs |-> FALSE, st |-> st],
                 CanCollapse(Val(e, st)))

(***************************************************************************)
(* TemplateState.process_tree(node_value, variables, resolve_variables,    *)
(* resolve_if_conditions).  rv and ric are the two flags; the result is    *)
(* [st, val]: the store afterwards and the value returned.  A walk stops   *)
(* at the first exception (st.err), and val means nothing then.            *)
(* The loops over the items of a list and the pairs of a dict are written  *)
(* from the last item backwards: item n is processed in the store left by  *)
(* items 1..n-1.                                                           *)
(***************************************************************************)
RECURSIVE ConcatAll(_)
ConcatAll(vals) ==
    IF vals = <<>> THEN <<>> ELSE Head(vals).str \o ConcatAll(Tail(vals))

AllStrings(vals) == \A i \in 1..Len(vals) : IsStr(vals[i])

FnJoin(vals) ==
    Map(<< <<FnName("Join"), List("list", <<EmptyStr, List("list", vals)>>)>> >>)

\* The value a list becomes once its items are processed, by the list's type.
FinishList(tag, vals) ==
    IF tag = "vars"
        THEN IF AllStrings(vals) THEN Str(ConcatAll(vals)) ELSE FnJoin(vals)
    ELSE IF tag = "uncoll" THEN List("uncoll", vals)
    ELSE List("list", vals)

\* A name that does not count the conditions registered so far.
ConditionNameFixed(conds) == Str(<<"IfCondition", ToString(1)>>)

\* 'IfCondition%d' % (len(self.if_conditions) + 1)
ConditionName(conds) == Str(<<"IfCondition", ToString(Len(conds.map) + 1)>>)

RECURSIVE process_tree(_, _, _, _)
RECURSIVE ProcessItems(_, _, _, _, _)
RECURSIVE ProcessPairs(_, _, _, _, _)

\* ... .append(r), r the result of processing one more item
AddItem(acc, r) == [st |-> r.st, val |-> Append(acc.val, r.val)]

StepItem(acc, entry, rv, ric) ==
    AddItem(acc, process_tree(entry, acc.st, rv, ric))

\* [self.process_tree(item, ...) for item in entries[1..n]]
ProcessItems(entries, n, st, rv, ric) ==
    IF n = 0 THEN [st |-> st, val |-> <<>>]
    ELSE StepItem(ProcessItems(entries, n - 1, st, rv, ric), entries[n],
                  rv, ric)

AddList(tag, r) == [st |-> r.st, val |-> FinishList(tag, r.val)]

\* the list branch, c being what collapse_variables returned
ProcessList(tag, c, rv, ric) ==
    AddList(tag, ProcessItems(c.result, Len(c.result), c.st, rv, ric))

\* OrderedDict[key] = value, k and v the results for the key and the value
AddPair(acc, k, v) == [st |-> v.st, val |-> SetItem(acc.val, k.val, v.val)]

StepValue(e, i, acc, k, rv, ric) ==
    AddPair(acc, k, process_tree(ChildE(e, i, k.st), k.st, rv, ric))

StepPair(e, i, acc, rv, ric) ==
    StepValue(e, i, acc,
              process_tree(ByVal(Val(e, acc.st).map[i][1]), acc.st, rv, FALSE),
              rv, ric)

\* the dict branch over the pairs 1..n of the dict at e
ProcessPairs(e, n, st, rv, ric) ==
    IF n = 0 THEN [st |-> st, val |-> Map(<<>>)]
    ELSE StepPair(e, n, ProcessPairs(e, n - 1, st, rv, ric), rv, ric)

\* the VarReference branch (resolve_variables is set)
ProcessVarReference(node, st) ==
    LET r == resolve(node.var, st)
    IN  IF r.err = ""
            THEN [st |-> [st EXCEPT !.unresolved = @ \ {node}],
                  val |-> Val(r.e, st)]
            ELSE [st |-> Raise(st, r.err), val |-> node]

\* The IfCondition branch returning the name the next condition will get.
NameConditionNext(name, inner, ric) ==
    IF inner.st.err # "" THEN inner
    ELSE IF ric
        THEN [st |-> [inner.st EXCEPT !.conds = SetItem(@, name, inner.val)],
              val |-> ConditionName(SetItem(inner.st.conds, name, inner.val))]
    ELSE [st |-> inner.st, val |-> Cond(inner.val)]

\* The IfCondition branch naming the condition in every pass.
NameConditionAlways(name, inner, ric) ==
    IF inner.st.err # "" THEN inner
    ELSE [st |-> [inner.st EXCEPT !.conds = SetItem(@, name, inner.val)],
          val |-> name]

\* the IfCondition branch, inner the result for the condition it wraps
NameCondition(name, inner, ric) ==
    IF inner.st.err # "" THEN inner
    ELSE IF ric
        THEN [st |-> [inner.st EXCEPT !.conds = SetItem(@, name, inner.val)],
              val |-> name]
    ELSE [st |-> inner.st, val |-> Cond(inner.val)]

ProcessIfCondition(e, st, rv, ric) ==
    NameCondition(ConditionName(st.conds),
                  process_tree(ChildE(e, 1, st), st, rv, FALSE), ric)

process_tree(e, st, rv, ric) ==
    IF st.err # "" THEN [st |-> st, val |-> EmptyStr]
    ELSE CASE IsMap(Val(e, st)) ->
                  ProcessPairs(e, Len(Val(e, st).map), st, rv, ric)
           [] IsList(Val(e, st)) ->
                  ProcessList(Val(e, st).tag, collapse_variables(e, st),
                              rv, ric)
           [] IsVar(Val(e, st)) /\ rv ->
                  ProcessVarReference(Val(e, st), st)
           [] IsCond(Val(e, st)) ->
                  ProcessIfCondition(e, st, rv, ric)
           [] OTHER -> [st |-> st, val |-> Val(e, st)]

(***************************************************************************)
(* TemplateState.normalize_vars_list.                                      *)
(***************************************************************************)
normalize_vars_list(l) ==
    IF \E i \in 1..Len(l.list) : ~IsVar(l.list[i]) /\ ~IsStr(l.list[i])
        THEN l
    ELSE IF \E i \in 1..Len(l.list) : IsVar(l.list[i])
        THEN List("vars", l.list)
    ELSE l

(***************************************************************************)
(* StringParser.  The regular expressions are the input: a scalar arrives  *)
(* as the sequence of what PARSE_STR_RE finds in it, line by line:         *)
(*   [t |-> "line"]                       the start of a line              *)
(*   [t |-> "text", s |-> s]              non-empty text outside a match   *)
(*   [t |-> "var", name |-> path]         $$name or $${path}               *)
(*   [t |-> "ref", name |-> w]            @@name                           *)
(*   [t |-> "func", name |-> w, params |-> ps, open |-> b]                 *)
(*                                        <% name(...) { %>, ps being what *)
(*                                        the class's parse_params returns *)
(*   [t |-> "close"]                      <% } %>                          *)
(* The stack items live in an arena (a stack item is referenced both from  *)
(* the stack and from its parent's contents); a content is a value or      *)
(* [ptr |-> i], the i-th item of the arena.  The parser state ps holds     *)
(* arena, stack, linepos (what came last on the line: "start", "text" or   *)
(* "match"), status ("parsing" or the exception raised) and nextid (the    *)
(* identity of the next VarReference made).                                *)
(***************************************************************************)
TokLine == [t |-> "line"]
TokText(s) == [t |-> "text", s |-> s]
TokVar(path) == [t |-> "var", name |-> path]
TokRef(w) == [t |-> "ref", name |-> w]
TokFunc(name, params, open) ==
    [t |-> "func", name |-> name, params |-> params, open |-> open]
TokClose == [t |-> "close"]

Ptr(i) == [ptr |-> i]
IsPtr(c) == "ptr" \in DOMAIN c

\* StringParser.FUNCTIONS.get(func_name, BlockFunction)
FunctionClass(name) ==
    IF name \in {"If", "ElseIf"} THEN "IfBlockFunction"
    ELSE IF name = "Else" THEN "ElseBlockFunction"
    ELSE IF name \in {"Base64", "GetAZs"} THEN "Function"
    ELSE "BlockFunction"

IsBlockClass(cls) ==
    cls \in {"BlockFunction", "IfBlockFunction", "ElseBlockFunction"}

\* StringParserStackItem.__init__ / Function.__init__ / IfBlockFunction.__init__
NewItem(cls, name, params) ==
    [cls |-> cls, func_name |-> name, params |-> params, contents |-> <<>>,
     pop_count |-> 1, is_elseif |-> FALSE, if_true |-> <<>>,
     if_false |-> <<>>, cur |-> "true"]

NewParser(nextid) ==
    [arena |-> <<>>, stack |-> <<>>, linepos |-> "start",
     status |-> "parsing", nextid |-> nextid]

Fail(ps, what) == [ps EXCEPT !.status = what]

\* StringParserStack.push
Push(ps, i) == [ps EXCEPT !.stack = Append(@, i)]

\* "content.pop_count = self.pop_count + 1": what one close marker pops
\* when it closes an ElseIf of the If me
ElseIfPopCountSame(me) == me.pop_count

ElseIfPopCount(me) == me.pop_count + 1

\* IfBlockFunction.add_content: [ps, push] with push the value returned
IfAddContent(ps, cur, c) ==
    LET me == ps.arena[cur]
        isElse == IsPtr(c) /\ IsBlockClass(ps.arena[c.ptr].cls)
                  /\ ps.arena[c.ptr].func_name \in {"Else", "ElseIf"}
        name == ps.arena[c.ptr].func_name
        side == IF isElse THEN "false" ELSE me.cur
        switched == [ps EXCEPT !.arena[cur].cur = side]
        renamed ==
            IF isElse /\ name = "ElseIf"
                THEN [switched EXCEPT
                         !.arena[c.ptr].func_name = "If",
                         !.arena[c.ptr].pop_count = ElseIfPopCount(me),
                         !.arena[c.ptr].is_elseif = TRUE]
                ELSE switched
        appended ==
            IF side = "true"
                THEN [renamed EXCEPT !.arena[cur].if_true = Append(@, c)]
                ELSE [renamed EXCEPT !.arena[cur].if_false = Append(@, c)]
    IN  IF isElse /\ me.if_true = <<>>
            THEN [ps |-> Fail(ps, "ConstructorError"), push |-> FALSE]
        ELSE IF isElse /\ me.if_false # <<>>
            THEN [ps |-> Fail(ps, "ConstructorError"), push |-> FALSE]
        ELSE IF isElse /\ name = "Else"
            THEN [ps |-> switched, push |-> FALSE]
        ELSE [ps |-> appended, push |-> TRUE]

\* stack.current.add_content(content)
add_content(ps, c) ==
    IF ps.status # "parsing" THEN [ps |-> ps, push |-> FALSE]
    ELSE IF ps.stack = <<>>
        THEN [ps |-> Fail(ps, "IndexError"), push |-> FALSE]
    ELSE LET cur == Last(ps.stack)
         IN  IF ps.arena[cur].cls = "IfBlockFunction"
                 THEN IfAddContent(ps, cur, c)
                 ELSE [ps |-> [ps EXCEPT !.arena[cur].contents = Append(@, c)],
                       push |-> IsPtr(c)]

\* _parse_line: "if start > 0: stack.current.add_content(s[prev:start])".
\* The text before a match that follows text was added when it was read;
\* a match that follows a match on the same line adds the empty string.
BeforeMatch(ps) ==
    IF ps.linepos = "match" THEN add_content(ps, EmptyStr).ps ELSE ps

\* _parse_line, before the matches: "if not stack: stack.push(StringParserStackItem())"
ParseLineStart(ps) ==
    LET pushed ==
            IF ps.stack = <<>>
                THEN Push([ps EXCEPT !.arena =
                              Append(@, NewItem("StringParserStackItem", "", <<>>))],
                          Len(ps.arena) + 1)
                ELSE ps
    IN  [pushed EXCEPT !.linepos = "start"]

ParseText(ps, s) ==
    [add_content(ps, Str(s)).ps EXCEPT !.linepos = "text"]

\* Function.validate / IfBlockFunction.validate / ElseBlockFunction.validate
validate(ps, f) ==
    LET me == ps.arena[f]
    IN  IF me.cls = "IfBlockFunction"
            THEN IF me.is_elseif
                     THEN IF ps.stack = <<>> THEN Fail(ps, "IndexError")
                          ELSE IF ps.arena[Last(ps.stack)].cls # "IfBlockFunction"
                              THEN Fail(ps, "ConstructorError")
                          ELSE ps
                     ELSE ps
        ELSE IF me.cls = "ElseBlockFunction"
            THEN IF ps.stack = <<>> THEN Fail(ps, "IndexError")
                 ELSE IF ps.arena[Last(ps.stack)].cls # "IfBlockFunction"
                     THEN Fail(ps, "ConstructorError")
                 ELSE ps
        ELSE ps

\* StringParser._handle_func
HandleFunc(ps0, tok) ==
    LET ps == BeforeMatch(ps0)
        f == Len(ps.arena) + 1
        made == [ps EXCEPT !.arena =
                    Append(@, NewItem(FunctionClass(tok.name), tok.name,
                                      tok.params))]
        checked == validate(made, f)
        added == add_content(checked, Ptr(f))
        pushed == IF added.ps.status = "parsing" /\ added.push /\ tok.open
                      THEN Push(added.ps, f) ELSE added.ps
    IN  IF ps.status # "parsing" THEN ps
        ELSE [pushed EXCEPT !.linepos = "match"]

\* StringParser._handle_func_block_close: pop_count pops of the stack
RECURSIVE PopN(_, _)
PopN(ps, n) ==
    IF n = 0 THEN ps
    ELSE IF ps.stack = <<>> THEN Fail(ps, "IndexError")
    ELSE PopN([ps EXCEPT !.stack = Front(@)], n - 1)

HandleFuncBlockClose(ps0) ==
    LET ps == BeforeMatch(ps0)
        popped == IF ps.stack = <<>> THEN Fail(ps, "IndexError")
                  ELSE PopN(ps, ps.arena[Last(ps.stack)].pop_count)
    IN  IF ps.status # "parsing" THEN ps
        ELSE [popped EXCEPT !.linepos = "match"]

\* StringParser._handle_var
HandleVar(ps0, tok) ==
    LET ps == BeforeMatch(ps0)
        added == add_content(ps, VarRef(tok.name, ps.nextid)).ps
    IN  IF ps.status # "parsing" THEN ps
        ELSE [added EXCEPT !.linepos = "match", !.nextid = @ + 1]

\* StringParser._handle_ref_name
HandleRefName(ps0, tok) ==
    LET ps == BeforeMatch(ps0)
        added == add_content(ps, Map(<< <<Sym("Ref"), Sym(tok.name)>> >>)).ps
    IN  IF ps.status # "parsing" THEN ps
        ELSE [added EXCEPT !.linepos = "match"]

\* One piece of the scalar, as _parse_line handles it.
ParseToken(ps, tok) ==
    IF ps.status # "parsing" THEN ps
    ELSE IF tok.t = "line" THEN ParseLineStart(ps)
    ELSE IF tok.t = "text" THEN ParseText(ps, tok.s)
    ELSE IF tok.t = "func" THEN HandleFunc(ps, tok)
    ELSE IF tok.t = "close" THEN HandleFuncBlockClose(ps)
    ELSE IF tok.t = "var" THEN HandleVar(ps, tok)
    ELSE HandleRefName(ps, tok)

(***************************************************************************)
(* Serialization of the stack items.  Each operator returns [st, val]: the *)
(* store afterwards (normalize_content runs process_tree against the       *)
(* TemplateState, which records unresolved variables) and the value;       *)
(* st.err holds the exception raised.                                      *)
(***************************************************************************)
\* Python's "not value"
Falsy(v) ==
    \/ IsStr(v) /\ v.str = <<>>
    \/ IsList(v) /\ v.list = <<>>
    \/ IsMap(v) /\ v.map = <<>>

\* normalize_content on a list, after process_tree: normalize_vars_list and
\* the wrapping by length
JoinContent(r, content) ==
    IF r.st.err # "" THEN r
    ELSE IF Len(content.list) = 1
        THEN [st |-> r.st, val |-> content.list[1]]
    ELSE IF Len(content.list) > 1 /\ content.tag # "vars"
        THEN [st |-> r.st,
              val |-> Map(<< <<FnName("Join"),
                               List("list", <<EmptyStr, content>>)>> >>)]
    ELSE [st |-> r.st, val |-> content]

ProcessContent(r) == JoinContent(r, normalize_vars_list(r.val))

\* normalize_content on a list, each the result of normalizing its items
NormalizeList(each) ==
    IF each.st.err # "" THEN each
    ELSE ProcessContent(process_tree(ByVal(List("list", each.val)), each.st,
                                     FALSE, FALSE))

RECURSIVE serialize(_, _, _)
RECURSIVE normalize_content(_, _, _)
RECURSIVE NormalizeEach(_, _, _, _)

StepContent(arena, acc, c) ==
    AddItem(acc, normalize_content(arena, c, acc.st))

\* [self.normalize_content(content) for content in contents[1..n]]
NormalizeEach(arena, contents, n, st) ==
    IF n = 0 THEN [st |-> st, val |-> <<>>]
    ELSE StepContent(arena, NormalizeEach(arena, contents, n - 1, st),
                     contents[n])

\* normalize_content once a stack item is serialized
NormalizeValue(arena, ser) ==
    IF ser.st.err # "" THEN ser
    ELSE IF IsList(ser.val)
        THEN NormalizeList(NormalizeEach(arena, ser.val.list,
                                         Len(ser.val.list), ser.st))
    ELSE ser

\* StringParserStackItem.normalize_content
normalize_content(arena, c, st) ==
    IF IsPtr(c) THEN NormalizeValue(arena, serialize(arena, c.ptr, st))
    ELSE NormalizeValue(arena, [st |-> st, val |-> c])

\* IfBlockFunction.serialize, t and f the results of
\* normalize_function_contents for the two branches
MakeIf(me, t, f) ==
    IF f.st.err # "" THEN f
    ELSE IF ~IsMap(me.params[1]) /\ ~IsStr(me.params[1])
        THEN [st |-> Raise(f.st, "ConstructorError"), val |-> me.params[1]]
    ELSE [st |-> f.st,
          val |-> Map(<< <<FnName("If"),
                           List("uncoll",
                                <<IF IsMap(me.params[1])
                                      THEN Cond(me.params[1])
                                      ELSE me.params[1],
                                  t.val,
                                  IF Falsy(f.val) THEN NoValue ELSE f.val>>)>> >>)]

SerializeFalse(arena, me, t) ==
    IF t.st.err # "" THEN t
    ELSE MakeIf(me, t, normalize_content(arena, List("list", me.if_false),
                                         t.st))

\* IfBlockFunction.normalize_function_contents and IfBlockFunction.serialize
SerializeIf(arena, me, st) ==
    SerializeFalse(arena, me,
                   normalize_content(arena, List("list", me.if_true), st))

\* StringParserStackItem.serialize
SerializeItem(each) == [st |-> each.st, val |-> List("list", each.val)]

\* BlockFunction.serialize
SerializeBlock(me, each) ==
    [st |-> each.st,
     val |-> Map(<< <<FnName(me.func_name),
                      List("uncoll", me.params \o each.val)>> >>)]

\* StringParserStackItem.serialize / Function.serialize /
\* BlockFunction.serialize / IfBlockFunction.serialize
serialize(arena, i, st) ==
    CASE arena[i].cls = "IfBlockFunction" -> SerializeIf(arena, arena[i], st)
      [] arena[i].cls = "Function" ->
             [st |-> st,
              val |-> Map(<< <<FnName(arena[i].func_name),
                               arena[i].params>> >>)]
      [] arena[i].cls = "StringParserStackItem" ->
             SerializeItem(NormalizeEach(arena, arena[i].contents,
                                         Len(arena[i].contents), st))
      [] OTHER ->
             SerializeBlock(arena[i],
                            NormalizeEach(arena, arena[i].contents,
                                          Len(arena[i].contents), st))

\* Fn::Base64 around the result when the scalar starts with __base64__
WrapBase64(r, base64) ==
    IF r.st.err = "" /\ base64
        THEN [st |-> r.st, val |-> Map(<< <<FnName("Base64"), r.val>> >>)]
        ELSE r

\* StringParser.parse_string after its lines are parsed: the balance check,
\* the serialization of the bottom item and the Fn::Base64 wrapper.
FinishParse(ps, base64, st) ==
    IF ps.status # "parsing"
        THEN [st |-> Raise(st, ps.status), val |-> EmptyStr]
    ELSE IF Len(ps.stack) > 1
        THEN [st |-> Raise(st, "ConstructorError"), val |-> EmptyStr]
    ELSE IF ps.stack = <<>>
        THEN [st |-> Raise(st, "IndexError"), val |-> EmptyStr]
    ELSE WrapBase64(normalize_content(ps.arena, Ptr(Last(ps.stack)), st),
                    base64)

RECURSIVE ParseTokens(_, _, _)
ParseTokens(ps, toks, i) ==
    IF i > Len(toks) THEN ps
    ELSE ParseTokens(ParseToken(ps, toks[i]), toks, i + 1)

\* StringParser.parse_string(s) for a non-empty s whose pieces are toks;
\* nextid numbers the VarReferences it makes.
parse_string(toks, base64, st, nextid) ==
    FinishParse(ParseTokens(NewParser(nextid), toks, 1), base64, st)

(***************************************************************************)
(* State.                                                                  *)
(*   pc             where the run is                                       *)
(*   input          the pieces of input consumed so far                    *)
(*   parser         the StringParser state (arena, stack, ...)             *)
(*   template_state the TemplateState: variables, macros,                  *)
(*                  unresolved_variables, if_conditions                    *)
(*   reader_doc     the document the yaml loader constructed (the reader's *)
(*                  doc, or the __dict__ of a VariablesDoc)                *)
(*   doc            the document or value produced: [err, val]             *)
(***************************************************************************)
VARIABLES pc, input, parser, template_state, reader_doc, doc

vars == <<pc, input, parser, template_state, reader_doc, doc>>

\* TemplateState.__init__
NewTemplateState ==
    [variables |-> Map(<<>>), macros |-> Map(<<>>),
     unresolved_variables |-> {}, if_conditions |-> Map(<<>>)]

\* The store of a walk of tree against the TemplateState ts.
StoreOf(ts, tree, scope, same) ==
    NewStore(tree, scope, same, ts.unresolved_variables, ts.if_conditions)

NoDoc == [err |-> "none", val |-> EmptyStr]

(***************************************************************************)
(* StringParser.parse_string on one scalar, line by line.  Each line of    *)
(* the scalar holds one piece: text, a variable, a function marker or a    *)
(* close marker.  pc is "parsing" until the end of the scalar, then        *)
(* "done"; doc is what parse_string returned.                              *)
(***************************************************************************)
ParseTexts == {<<"x">>}
ParseVars == {<<"v">>}
If_a == TokFunc("If", <<Sym("a")>>, TRUE)
ElseIf_b == TokFunc("ElseIf", <<Sym("b")>>, TRUE)
Else == TokFunc("Else", <<>>, TRUE)

\* StringParser.parse_string, one line of the scalar: _parse_line on a line
\* that holds the single piece tok.
ParseOneLine(ps, tok) == ParseToken(ParseToken(ps, TokLine), tok)

\* The parser after the first n lines of toks.
RECURSIVE ParseLines(_, _, _)
ParseLines(ps, toks, n) ==
    IF n = 0 THEN ps ELSE ParseOneLine(ParseLines(ps, toks, n - 1), toks[n])

Read(tok, max) ==
    /\ pc = "parsing"
    /\ parser.status = "parsing"
    /\ Len(input) < max
    /\ parser' = ParseOneLine(parser, tok)
    /\ input' = Append(input, tok)
    /\ UNCHANGED <<pc, template_state, reader_doc, doc>>

\* Two text lines in a row are one text.
TextLine(max) ==
    /\ IF input = <<>> THEN TRUE ELSE Last(input).t # "text"
    /\ \E s \in ParseTexts : Read(TokText(s), max)

VarLine(max) == \E v \in ParseVars : Read(TokVar(v), max)

FuncLine(funcs, max) == \E f \in funcs : Read(f, max)

CloseLine(max) == Read(TokClose, max)

\* What a call returned: the exception raised ("" when none) and the value.
Returned(r) == [err |-> r.st.err, val |-> r.val]

\* The TemplateState after a walk that ended in the store st.
Finished(ts, st) ==
    [ts EXCEPT !.unresolved_variables = st.unresolved,
               !.if_conditions = st.conds]

ParseStore == StoreOf(template_state, EmptyStr, template_state.variables, FALSE)

\* The end of the scalar.
ParseEnd ==
    /\ pc = "parsing"
    /\ parser.status = "parsing"
    /\ input # <<>>
    /\ doc' = Returned(FinishParse(parser, FALSE, ParseStore))
    /\ template_state' =
           Finished(template_state, FinishParse(parser, FALSE, ParseStore).st)
    /\ pc' = "done"
    /\ UNCHANGED <<input, parser, reader_doc>>

(***************************************************************************)
(* SpecParse: the block markers.  No variables are defined.                *)
(***************************************************************************)
MaxTokens == 7

ParseFuncs == {If_a, ElseIf_b, Else}

InitParse ==
    /\ pc = "parsing"
    /\ input = <<>>
    /\ parser = NewParser(1)
    /\ template_state = NewTemplateState
    /\ reader_doc = Map(<<>>)
    /\ doc = NoDoc

NextParse ==
    \/ TextLine(MaxTokens)
    \/ FuncLine(ParseFuncs, MaxTokens)
    \/ CloseLine(MaxTokens)
    \/ ParseEnd

SpecParse == InitParse /\ [][NextParse]_vars

(***************************************************************************)
(* Properties of the block markers (SpecParse).                            *)
(***************************************************************************)
IsFunc(tok, name) == tok.t = "func" /\ tok.name = name

\* A conditional chain: If text (ElseIf text)* [Else text] close.
IsChain(toks) ==
    /\ Len(toks) >= 3
    /\ Len(toks) % 2 = 1
    /\ toks[Len(toks)].t = "close"
    /\ IsFunc(toks[1], "If")
    /\ \A j \in 1..((Len(toks) - 1) \div 2) :
          /\ toks[2 * j].t = "text"
          /\ j > 1 =>
                \/ IsFunc(toks[2 * j - 1], "ElseIf")
                \/ 2 * j = Len(toks) - 1 /\ IsFunc(toks[2 * j - 1], "Else")

IfNode(c, t, f) == Map(<< <<FnName("If"), List("uncoll", <<c, t, f>>)>> >>)

\* What the clauses j, j+1, ... of a chain lower to.
RECURSIVE Lowered(_, _)
Lowered(toks, j) ==
    IF 2 * j > Len(toks) - 1 THEN NoValue
    ELSE IF IsFunc(toks[2 * j - 1], "Else") THEN Str(toks[2 * j].s)
    ELSE IfNode(toks[2 * j - 1].params[1], Str(toks[2 * j].s),
                Lowered(toks, j + 1))

\* The parser when the marker of line i is about to be handled.
BeforeLine(i) == ParseToken(ParseLines(NewParser(1), input, i - 1), TokLine)

\* C6: a chain If X (ElseIf Y)* [Else Z] closed by one close marker lowers to
\* right-nested If nodes, each ElseIf the false-branch of the clause before
\* it and "no value" the innermost false-branch when Else is omitted, and the
\* one close marker brings the stack back to what it was before the If.
C6_ChainLowersToNestedIf ==
    /\ \A i \in 1..Len(input) :
          (IsChain(SubSeq(input, i, Len(input)))
             /\ BeforeLine(i).status = "parsing") =>
              /\ parser.status = "parsing"
              /\ parser.stack = BeforeLine(i).stack
    /\ (pc = "done" /\ IsChain(input)) =>
           doc = [err |-> "", val |-> Lowered(input, 1)]

C6_IfElseIfElseLowered ==
    /\ pc = "done"
    /\ input = <<If_a, TokText(<<"x">>), ElseIf_b, TokText(<<"x">>),
                 Else, TokText(<<"x">>), TokClose>>
    /\ doc.val = IfNode(Sym("a"), Sym("x"), IfNode(Sym("b"), Sym("x"), Sym("x")))
    /\ Len(parser.stack) = 1

Top(ps) == ps.arena[Last(ps.stack)]

\* An If is open, its true-branch is not empty and it has no Else yet.
AcceptsElse(ps) ==
    /\ ps.stack # <<>>
    /\ Top(ps).cls = "IfBlockFunction"
    /\ Top(ps).if_true # <<>>
    /\ Top(ps).cur = "true"

\* C7: an Else or ElseIf that is not inside an If with a non-empty
\* true-branch and no Else yet is rejected with a syntax error.
C7_MisplacedElseRejected ==
    (/\ input # <<>>
     /\ Last(input).t = "func"
     /\ Last(input).name \in {"Else", "ElseIf"}
     /\ BeforeLine(Len(input)).status = "parsing"
     /\ ~AcceptsElse(BeforeLine(Len(input))))
        => parser.status = "ConstructorError"

\* The blocks open after the first n lines; -1 once a close marker came with
\* no block open.
RECURSIVE OpenBlocks(_, _)
OpenBlocks(toks, n) ==
    IF n = 0 THEN 0
    ELSE IF OpenBlocks(toks, n - 1) < 0 THEN -1
    ELSE IF toks[n].t = "close" THEN OpenBlocks(toks, n - 1) - 1
    ELSE IF IsFunc(toks[n], "If") THEN OpenBlocks(toks, n - 1) + 1
    ELSE OpenBlocks(toks, n - 1)

RECURSIVE SumTexts(_, _)
RECURSIVE TextCount(_)
\* How many times the text x occurs in a value.
TextCount(v) ==
    CASE IsStr(v) -> Cardinality({i \in 1..Len(v.str) : <<v.str[i]>> \in ParseTexts})
      [] IsMap(v) -> SumTexts([i \in 1..Len(v.map) |-> v.map[i][2]], Len(v.map))
      [] IsList(v) -> SumTexts(v.list, Len(v.list))
      [] OTHER -> 0

SumTexts(vals, n) ==
    IF n = 0 THEN 0 ELSE SumTexts(vals, n - 1) + TextCount(vals[n])

\* C9: a scalar whose block markers do not balance (a block still open at
\* the end, or a close marker with no block open) fails with a syntax error,
\* and a result that is returned holds every text of the scalar.
C9_UnbalancedRejectedNothingDropped ==
    pc = "done" =>
        /\ OpenBlocks(input, Len(input)) # 0 => doc.err = "ConstructorError"
        /\ doc.err = "" =>
               TextCount(doc.val) = Len(SelectSeq(input, LAMBDA t : t.t = "text"))

(***************************************************************************)
(* SpecFold: a scalar with variables in its conditionals, parsed with the  *)
(* variable defined or not, and then processed again by process_tree (as   *)
(* the reader and the compiler do with the documents that hold it), the    *)
(* variables of each pass being sc.  pc is "reprocessed" after a pass.     *)
(***************************************************************************)
MaxFoldTokens == 5

FoldFuncs == {If_a, Else}

FoldScopes == { Map(<<>>), Map(<< <<Sym("v"), Sym("V")>> >>) }

Reprocess ==
    /\ pc \in {"done", "reprocessed"}
    /\ doc.err = ""
    /\ \E sc \in FoldScopes, rv \in BOOLEAN :
          /\ doc' = Returned(process_tree(ByVal(doc.val),
                                          StoreOf(template_state, EmptyStr,
                                                  sc, FALSE), rv, FALSE))
          /\ template_state' =
                 Finished(template_state,
                          process_tree(ByVal(doc.val),
                                       StoreOf(template_state, EmptyStr,
                                               sc, FALSE), rv, FALSE).st)
    /\ pc' = "reprocessed"
    /\ UNCHANGED <<input, parser, reader_doc>>

InitFold ==
    /\ pc = "parsing"
    /\ input = <<>>
    /\ parser = NewParser(1)
    /\ \E sc \in FoldScopes :
          template_state = [NewTemplateState EXCEPT !.variables = sc]
    /\ reader_doc = Map(<<>>)
    /\ doc = NoDoc

NextFold ==
    \/ TextLine(MaxFoldTokens)
    \/ VarLine(MaxFoldTokens)
    \/ FuncLine(FoldFuncs, MaxFoldTokens)
    \/ CloseLine(MaxFoldTokens)
    \/ ParseEnd
    \/ Reprocess

SpecFold == InitFold /\ [][NextFold]_vars

(***************************************************************************)
(* Properties of the conditional nodes (SpecFold).                         *)
(***************************************************************************)
RECURSIVE AllIfTernary(_)
\* Every Fn::If below v holds a list of three elements.
AllIfTernary(v) ==
    CASE IsMap(v) ->
             \A i \in 1..Len(v.map) :
                /\ v.map[i][1] = FnName("If") =>
                       /\ IsList(v.map[i][2])
                       /\ Len(v.map[i][2].list) = 3
                /\ AllIfTernary(v.map[i][2])
      [] IsList(v) -> \A i \in 1..Len(v.list) : AllIfTernary(v.list[i])
      [] IsCond(v) -> AllIfTernary(v.cond)
      [] OTHER -> TRUE

\* C8: every conditional node of the value parse_string returned has three
\* elements and keeps three through every later process_tree pass, whatever
\* its branches hold; an If whose false-branch is empty serializes with the
\* "no value" placeholder as its third element.
C8_ConditionalKeepsThreeElements ==
    /\ (pc \in {"done", "reprocessed"} /\ doc.err = "") => AllIfTernary(doc.val)
    /\ \A j \in 1..Len(parser.arena) :
          (/\ parser.arena[j].cls = "IfBlockFunction"
           /\ parser.arena[j].if_false = <<>>
           /\ serialize(parser.arena, j, ParseStore).st.err = "")
              => serialize(parser.arena, j, ParseStore).val
                    = IfNode(parser.arena[j].params[1],
                             serialize(parser.arena, j, ParseStore).val.map[1][2].list[2],
                             NoValue)

\* A variable left unresolved when the scalar was parsed is resolved by a
\* later pass inside the true-branch of an If that has no Else.
C8_BranchResolvedLater ==
    /\ pc = "reprocessed"
    /\ template_state.variables = Map(<<>>)
    /\ input = <<If_a, TokText(<<"x">>), TokVar(<<"v">>), TokClose>>
    /\ doc = [err |-> "",
              val |-> IfNode(Sym("a"), FnJoin(<<Str(<<"x", "V">>)>>), NoValue)]

(***************************************************************************)
(* SpecVars: TemplateReader.load_string on a "--- !vars" document.  The    *)
(* yaml loader constructs the document entry by entry, each scalar through *)
(* construct_string (StringParser.parse_string against the shared          *)
(* TemplateState); the reader then runs _resolve_variables on the          *)
(* document and updates template_state.variables with what it returns.     *)
(* pc is "reading" while the loader constructs the document and "loaded"   *)
(* after the reader handled it; input is the source of the entries read.   *)
(***************************************************************************)
MaxVars == 3

VarNames == {"var1", "var2", "var3"}

\* The scalars of a value: a literal, a lone reference, text around a
\* reference.
VarScalars ==
    {<<TokLine, TokText(<<"value">>)>>}
        \cup {<<TokLine, TokVar(<<n>>)>> : n \in VarNames}
        \cup {<<TokLine, TokVar(<<n>>), TokText(<<"x">>)>> : n \in VarNames}

\* TemplateLoader.construct_string
construct_string(toks) == parse_string(toks, FALSE, ParseStore, parser.nextid)

\* The StringParser of the next scalar: its VarReferences are new objects.
NextParser(toks) == NewParser(ParseTokens(parser, toks, 1).nextid)

\* construct_ordered_mapping: one more "name: scalar" entry of the document.
ConstructEntry(max) ==
    /\ pc = "reading"
    /\ Len(reader_doc.map) < max
    /\ \E n \in VarNames, toks \in VarScalars :
          /\ ~HasKey(reader_doc, Sym(n))
          /\ construct_string(toks).st.err = ""
          /\ reader_doc' = SetItem(reader_doc, Sym(n), construct_string(toks).val)
          /\ template_state' = Finished(template_state, construct_string(toks).st)
          /\ parser' = NextParser(toks)
          /\ input' = Append(input, [name |-> n, toks |-> toks])
    /\ UNCHANGED <<pc, doc>>

\* The while loop of _resolve_variables: r is the result of the passes made
\* so far, prev the copy of unresolved_variables taken after the last one
\* (None before the first pass).
RECURSIVE ResolveLoop(_, _, _)
ResolveLoop(first, prev, r) ==
    IF r.st.err # "" THEN r
    ELSE IF ~first /\ prev = r.st.unresolved THEN r
    ELSE ResolveLoop(FALSE,
                     process_tree(Handle("t", <<>>),
                                  [r.st EXCEPT !.tree = r.val, !.scope = r.val],
                                  TRUE, FALSE).st.unresolved,
                     process_tree(Handle("t", <<>>),
                                  [r.st EXCEPT !.tree = r.val, !.scope = r.val],
                                  TRUE, FALSE))

\* The names of the document d whose walk ends within k nested lists: a
\* list holding a reference to a variable bound to a list is walked into
\* that list (collapse_variables puts the list itself among the items).
RECURSIVE WalkEndsAfter(_, _)
WalkEndsAfter(d, k) ==
    IF k = 0 THEN {}
    ELSE {d.map[i][1] : i \in {j \in 1..Len(d.map) :
            \/ ~IsList(d.map[j][2])
            \/ \A x \in 1..Len(d.map[j][2].list) :
                  \/ ~IsVar(d.map[j][2].list[x])
                  \/ ~HasKey(d, Sym(d.map[j][2].list[x].var[1]))
                  \/ Sym(d.map[j][2].list[x].var[1]) \in WalkEndsAfter(d, k - 1)}}

\* A list of the document refers to itself through lists: process_tree
\* recurses until Python raises "maximum recursion depth exceeded".
WalkNeverEnds(d) ==
    WalkEndsAfter(d, Len(d.map) + 1) # {d.map[i][1] : i \in 1..Len(d.map)}

\* TemplateReader._resolve_variables
resolve_variables(ts, tree) ==
    IF WalkNeverEnds(tree)
        THEN [st |-> Raise(StoreOf(ts, tree, tree, TRUE), "RuntimeError"),
              val |-> tree]
    ELSE ResolveLoop(TRUE, {},
                     [st |-> StoreOf(ts, tree, tree, TRUE), val |-> tree])

\* TemplateReader.load_string, the VariablesDoc branch.
LoadVariables ==
    /\ pc = "reading"
    /\ reader_doc.map # <<>>
    /\ doc' = Returned(resolve_variables(template_state, reader_doc))
    /\ template_state' =
           IF resolve_variables(template_state, reader_doc).st.err # ""
               THEN Finished(template_state,
                             resolve_variables(template_state, reader_doc).st)
               ELSE [Finished(template_state,
                              resolve_variables(template_state, reader_doc).st)
                        EXCEPT !.variables =
                            Update(@, resolve_variables(template_state,
                                                        reader_doc).val)]
    /\ pc' = "loaded"
    /\ UNCHANGED <<input, parser, reader_doc>>

InitVars ==
    /\ pc = "reading"
    /\ input = <<>>
    /\ parser = NewParser(1)
    /\ template_state = NewTemplateState
    /\ reader_doc = Map(<<>>)
    /\ doc = NoDoc

NextVars == ConstructEntry(MaxVars) \/ LoadVariables

SpecVars == InitVars /\ [][NextVars]_vars

(***************************************************************************)
(* Properties of the variables document (SpecVars).                        *)
(***************************************************************************)
RECURSIVE VarRefsIn(_)
RECURSIVE VarRefsInAll(_, _)
\* The VarReferences found in a value.
VarRefsIn(v) ==
    CASE IsVar(v) -> {v}
      [] IsMap(v) ->
             VarRefsInAll([i \in 1..Len(v.map) |-> v.map[i][1]], Len(v.map))
                \cup VarRefsInAll([i \in 1..Len(v.map) |-> v.map[i][2]],
                                  Len(v.map))
      [] IsList(v) -> VarRefsInAll(v.list, Len(v.list))
      [] IsCond(v) -> VarRefsIn(v.cond)
      [] OTHER -> {}

VarRefsInAll(vals, n) ==
    IF n = 0 THEN {} ELSE VarRefsInAll(vals, n - 1) \cup VarRefsIn(vals[n])

\* The names a value of the document refers to.
NamesIn(v) == {Sym(r.var[1]) : r \in VarRefsIn(v)}

\* The names of the document bound to a value that refers only to names of
\* defined, after k rounds starting from the literals.
RECURSIVE DefinedAfter(_, _)
DefinedAfter(d, k) ==
    IF k = 0 THEN {}
    ELSE {d.map[i][1] : i \in {j \in 1..Len(d.map) :
                                  NamesIn(d.map[j][2]) \subseteq DefinedAfter(d, k - 1)}}

\* Every reference of the document is transitively defined within it.
TransitivelyDefined(d) ==
    DefinedAfter(d, Len(d.map)) = {d.map[i][1] : i \in 1..Len(d.map)}

\* C1: loading a variables document whose references are all transitively
\* defined within it ends without an error and binds every variable to a
\* value that holds no variable reference, whatever the order of the
\* declarations and the form of the references.
C1_VariablesFullyResolved ==
    (pc = "loaded" /\ TransitivelyDefined(reader_doc)) =>
        /\ doc.err = ""
        /\ \A i \in 1..Len(template_state.variables.map) :
              VarRefsIn(template_state.variables.map[i][2]) = {}

(***************************************************************************)
(* SpecCompile: TemplateCompiler.load_string.  The reader loads a template *)
(* whose sections hold scalars (pc "reading"); the compiler then copies    *)
(* the sections into its own doc, runs process_tree over Conditions and    *)
(* then over Resources with resolve_variables off and                      *)
(* resolve_if_conditions on (pc names the section about to be processed),  *)
(* adds the named conditions to Conditions and deletes the empty sections  *)
(* (pc "finish", then "compiled").                                         *)
(***************************************************************************)
MaxEntries == 2

SECTIONS == <<"Parameters", "Mappings", "Conditions", "Resources", "Outputs">>

CompileSections == {"Conditions", "Resources", "Outputs"}

\* IfBlockFunction.parse_params on "lhs == rhs"
EqualsExpr(lhs, rhs) ==
    Map(<< <<FnName("Equals"), List("uncoll", <<lhs, rhs>>)>> >>)

If_eq(w) == TokFunc("If", <<EqualsExpr(Sym(w), Sym("x"))>>, TRUE)

\* The scalars of a template: text, a variable nothing defines, an If on an
\* expression, an If nested in an If.
CompileScalars ==
    { <<TokLine, TokText(<<"x">>)>>,
      <<TokLine, TokVar(<<"v">>)>>,
      <<TokLine, If_eq("a"), TokLine, TokText(<<"x">>), TokLine, TokClose>>,
      <<TokLine, If_eq("a"), TokLine, If_eq("b"), TokLine, TokText(<<"x">>),
        TokLine, TokClose, TokLine, TokClose>> }

\* reader.doc[section], an empty mapping when the template has none
SectionOf(d, sec) ==
    IF HasKey(d, Sym(sec)) THEN Get(d, Sym(sec)) ELSE Map(<<>>)

\* The entries of the sections of the template read so far ("Meta" is no
\* section).
RECURSIVE EntryCount(_, _)
EntryCount(d, n) ==
    IF n = 0 THEN 0
    ELSE EntryCount(d, n - 1)
             + (IF d.map[n][1] = Sym("Meta") THEN 0 ELSE Len(d.map[n][2].map))

\* The key of the next entry of a section.
EntryKey(section) == Str(<<"k", ToString(Len(section.map) + 1)>>)

\* construct_ordered_mapping: one more "key: scalar" entry of a section of
\* the template.
ConstructSectionEntry(max) ==
    /\ pc = "reading"
    /\ EntryCount(reader_doc, Len(reader_doc.map)) < max
    /\ \E sec \in CompileSections, toks \in CompileScalars :
          /\ construct_string(toks).st.err = ""
          /\ reader_doc' =
                 SetItem(reader_doc, Sym(sec),
                         SetItem(SectionOf(reader_doc, sec),
                                 EntryKey(SectionOf(reader_doc, sec)),
                                 construct_string(toks).val))
          /\ template_state' = Finished(template_state, construct_string(toks).st)
          /\ parser' = NextParser(toks)
          /\ input' = Append(input, [name |-> sec, toks |-> toks])
    /\ UNCHANGED <<pc, doc>>

\* Python's None and its bools.
None == [none |-> TRUE]
Bool(b) == [bool |-> b]

\* TemplateCompiler.__init__: the compiler is kept in doc, self.doc in its
\* field val and the exception load_string raised in err ("none" before
\* load_string is called, "" when it returned).
NewCompiler(fa) ==
    [err |-> "none", val |-> None, meta |-> None, for_amis |-> fa,
     ami_outputs |-> <<>>, stack_param_lookups |-> Map(<<>>),
     required_params |-> Map(<<>>)]

\* construct_ordered_mapping: the "Meta" mapping of the template.
ConstructMeta(metas) ==
    /\ pc = "reading"
    /\ ~HasKey(reader_doc, Sym("Meta"))
    /\ \E meta \in metas : reader_doc' = SetItem(reader_doc, Sym("Meta"), meta)
    /\ UNCHANGED <<pc, input, parser, template_state, doc>>

\* The stack_name argument of load_string.
StackNames == {None, Sym("s")}

\* self.meta.setdefault('Name', stack_name)
WithName(meta, stack_name) ==
    IF HasKey(meta, Sym("Name")) THEN meta
    ELSE SetItem(meta, Sym("Name"), stack_name)

\* description += ' [v%s]' % self.meta['Version']
Description(meta) ==
    IF HasKey(meta, Sym("Version"))
        THEN Str(Get(meta, Sym("Description")).str
                     \o <<" [v">> \o Get(meta, Sym("Version")).str \o <<"]">>)
        ELSE Get(meta, Sym("Description"))

\* self.doc after the sections of the reader's document are copied into it.
AssembledDoc(d) ==
    Map(<< <<Sym("AWSTemplateFormatVersion"), Sym("2010-09-09")>> >>
        \o (IF HasKey(Get(d, Sym("Meta")), Sym("Description"))
                THEN << <<Sym("Description"),
                          Description(Get(d, Sym("Meta")))>> >>
                ELSE <<>>)
        \o [i \in 1..Len(SECTIONS) |->
               <<Sym(SECTIONS[i]), SectionOf(d, SECTIONS[i])>>])

\* load_string up to the copy of the reader's sections into self.doc.
\* self.doc is bound before reader.doc['Meta'] is looked up.
BeginCompile ==
    /\ pc = "reading"
    /\ \E stack_name \in StackNames :
          IF ~HasKey(reader_doc, Sym("Meta"))
              THEN /\ doc' = [doc EXCEPT
                                 !.err = "KeyError",
                                 !.val = Map(<< <<Sym("AWSTemplateFormatVersion"),
                                                  Sym("2010-09-09")>> >>)]
                   /\ pc' = "failed"
                   /\ UNCHANGED reader_doc
              ELSE /\ reader_doc' =
                          SetItem(reader_doc, Sym("Meta"),
                                  WithName(Get(reader_doc, Sym("Meta")),
                                           stack_name))
                   /\ doc' = [doc EXCEPT
                                 !.err = "",
                                 !.val = AssembledDoc(reader_doc),
                                 !.meta = WithName(Get(reader_doc, Sym("Meta")),
                                                   stack_name)]
                   /\ pc' = "Conditions"
    /\ UNCHANGED <<input, parser, template_state>>

\* template_state.process_tree(self.doc[section], resolve_variables=False,
\*                             resolve_if_conditions=True)
ProcessSectionTree(sec) ==
    process_tree(ByVal(Get(doc.val, Sym(sec))),
                 StoreOf(template_state, EmptyStr, template_state.variables,
                         FALSE),
                 FALSE, TRUE)

\* One round of "for section in ('Conditions', 'Resources')".
ProcessSection ==
    /\ \E sec \in {"Conditions", "Resources"} :
          /\ pc = sec
          /\ doc' = IF ProcessSectionTree(sec).st.err # ""
                        THEN [doc EXCEPT !.err = ProcessSectionTree(sec).st.err]
                        ELSE [doc EXCEPT
                                  !.val = SetItem(@, Sym(sec),
                                                  ProcessSectionTree(sec).val)]
          /\ template_state' =
                 Finished(template_state, ProcessSectionTree(sec).st)
          /\ pc' = IF ProcessSectionTree(sec).st.err # "" THEN "failed"
                   ELSE IF sec = "Conditions" THEN "Resources"
                   ELSE "finish"
    /\ UNCHANGED <<input, parser, reader_doc>>

\* self.doc['Conditions'].update(template_state.if_conditions)
WithConditions(d, conds) ==
    IF conds.map # <<>>
        THEN SetItem(d, Sym("Conditions"),
                     Update(Get(d, Sym("Conditions")), conds))
        ELSE d

\* self.doc with every section left in it.
WithAllSections(d) == d

\* "if not self.doc[section]: del self.doc[section]"
WithoutEmptySections(d) ==
    Map(SelectSeq(d.map,
                  LAMBDA pr : ~(/\ \E i \in 1..Len(SECTIONS) :
                                      pr[1] = Sym(SECTIONS[i])
                                /\ Falsy(pr[2]))))

\* dict.pop(k, default): the dict without the key.
Popped(m, k) == Map(SelectSeq(m.map, LAMBDA pr : pr[1] # k))

\* str.lower() on the words a flag is written with.
Lower(s) ==
    [i \in 1..Len(s) |->
        CASE s[i] \in {"True", "TRUE"} -> "true"
          [] s[i] \in {"False", "FALSE"} -> "false"
          [] OTHER -> s[i]]

\* One round of the loop of _post_process_params, on the i-th parameter.
PostProcessParam(c, i) ==
    LET params == Get(c.val, Sym("Parameters"))
        name == params.map[i][1]
        param == params.map[i][2]
        lookup_from_stack ==
            IF HasKey(param, Sym("LookupFromStack"))
                THEN Get(param, Sym("LookupFromStack")) ELSE None
        required ==
            IF HasKey(param, Sym("Required"))
                THEN Get(param, Sym("Required")) ELSE Sym("true")
    IN  IF ~IsMap(param) THEN [c EXCEPT !.err = "AttributeError"]
        ELSE IF ~IsStr(required)
            THEN [c EXCEPT
                    !.err = "AttributeError",
                    !.val = SetItem(@, Sym("Parameters"),
                                SetItem(params, name,
                                    Popped(Popped(param, Sym("LookupFromStack")),
                                           Sym("Required")))),
                    !.stack_param_lookups =
                        IF lookup_from_stack = None \/ Falsy(lookup_from_stack)
                            THEN @ ELSE SetItem(@, name, lookup_from_stack)]
        ELSE [c EXCEPT
                !.val = SetItem(@, Sym("Parameters"),
                            SetItem(params, name,
                                Popped(Popped(param, Sym("LookupFromStack")),
                                       Sym("Required")))),
                !.stack_param_lookups =
                    IF lookup_from_stack = None \/ Falsy(lookup_from_stack)
                        THEN @ ELSE SetItem(@, name, lookup_from_stack),
                !.required_params =
                    SetItem(@, name, Bool(Lower(required.str) = <<"true">>))]

\* TemplateCompiler._post_process_params, from the i-th parameter on.
RECURSIVE PostProcessFrom(_, _)
PostProcessFrom(c, i) ==
    IF c.err # "" \/ i > Len(Get(c.val, Sym("Parameters")).map) THEN c
    ELSE PostProcessFrom(PostProcessParam(c, i), i + 1)

post_process_params(c) == PostProcessFrom(c, 1)

\* resource.get('Metadata', {})
MetadataOf(resource) ==
    IF HasKey(resource, Sym("Metadata")) THEN Get(resource, Sym("Metadata"))
    ELSE Map(<<>>)

\* The test of the first loop of _scan_cloudpuff_metadata with the test of
\* 'AMINameFormat' that follows it.
HasAMIMetadata(resource) ==
    /\ IsMap(resource)
    /\ HasKey(resource, Sym("Type"))
    /\ Get(resource, Sym("Type")) = Sym("AWS::EC2::Instance")
    /\ HasKey(MetadataOf(resource), Sym("CloudPuff"))
    /\ HasKey(Get(MetadataOf(resource), Sym("CloudPuff")), Sym("AMINameFormat"))

\* ami_metadata: the indexes, in document order, of the resources that
\* have an ami_info.
AMIMetadata(resources) ==
    SelectSeq([i \in 1..Len(resources.map) |-> i],
              LAMBDA i : HasAMIMetadata(resources.map[i][2]))

\* A key that does not take the name of the resource.
AMIKeyFixed(resource_name, what) == Str(<<"CloudPuff", what>>)

\* 'CloudPuff%s<what>' % resource_name
AMIKey(resource_name, what) ==
    Str(<<"CloudPuff">> \o resource_name.str \o <<what>>)

\* output['Description'] = ...; output['Value'] = value
Output(description, resource_name, value) ==
    Map(<< <<Sym("Description"), Str(<<description>> \o resource_name.str)>>,
           <<Sym("Value"), value>> >>)

\* The outputs made for the resource called resource_name.
AMIOutputsOf(resource_name, resource) ==
    LET metadata == Get(MetadataOf(resource), Sym("CloudPuff"))
    IN  Map(<< <<AMIKey(resource_name, "InstanceID"),
                 Output("Instance ID for ", resource_name,
                        Map(<< <<Sym("Ref"), resource_name>> >>))>>,
               <<AMIKey(resource_name, "AMINameFormat"),
                 Output("Name format for the AMI for ", resource_name,
                        Get(metadata, Sym("AMINameFormat")))>> >>
            \o (IF HasKey(metadata, Sym("PreviousAMI"))
                    THEN << <<AMIKey(resource_name, "PreviousAMI"),
                              Output("Previous AMI ID created for ",
                                     resource_name,
                                     Get(metadata, Sym("PreviousAMI")))>> >>
                    ELSE <<>>))

\* The entry appended to self.ami_outputs.
AMIOutputRecord(resource_name) ==
    [resource_name |-> resource_name,
     outputs |-> [previous_ami_key |-> AMIKey(resource_name, "PreviousAMI"),
                  instance_id_key |-> AMIKey(resource_name, "InstanceID"),
                  name_format_key |-> AMIKey(resource_name, "AMINameFormat")]]

\* The second loop of _scan_cloudpuff_metadata over ami_metadata[k..]:
\* outputs is the dict built so far.
RECURSIVE ScanFrom(_, _, _, _)
ScanFrom(c, found, k, outputs) ==
    IF k > Len(found)
        THEN [c EXCEPT !.val = SetItem(@, Sym("Outputs"),
                                       Update(Get(@, Sym("Outputs")), outputs))]
    ELSE LET pr == Get(c.val, Sym("Resources")).map[found[k]]
         IN  ScanFrom([c EXCEPT !.ami_outputs =
                                    Append(@, AMIOutputRecord(pr[1]))],
                      found, k + 1,
                      Update(outputs, AMIOutputsOf(pr[1], pr[2])))

\* TemplateCompiler._scan_cloudpuff_metadata
scan_cloudpuff_metadata(c) ==
    IF c.err # "" THEN c
    ELSE IF AMIMetadata(Get(c.val, Sym("Resources"))) # <<>> /\ c.for_amis
        THEN ScanFrom(c, AMIMetadata(Get(c.val, Sym("Resources"))), 1,
                      Map(<<>>))
    ELSE c

\* "for section in self.SECTIONS: if not self.doc[section]: del ..."
CleanedUp(c) ==
    IF c.err # "" THEN c ELSE [c EXCEPT !.val = WithoutEmptySections(@)]

\* load_string after the two sections are processed.
FinishCompile ==
    /\ pc = "finish"
    /\ doc' = CleanedUp(scan_cloudpuff_metadata(post_process_params(
                   [doc EXCEPT !.val =
                        WithConditions(@, template_state.if_conditions)])))
    /\ pc' = IF doc'.err = "" THEN "compiled" ELSE "failed"
    /\ UNCHANGED <<input, parser, template_state, reader_doc>>

\* TemplateCompiler.__init__(for_amis=False)
for_amis == FALSE

\* A new compiler and its reader, variables['buildingAMIs'] set.
InitCompile ==
    /\ pc = "reading"
    /\ input = <<>>
    /\ parser = NewParser(1)
    /\ template_state =
           [NewTemplateState EXCEPT
                !.variables = Map(<< <<Sym("buildingAMIs"),
                                       IF for_amis THEN Sym("true")
                                       ELSE Sym("false")>> >>)]
    /\ reader_doc = Map(<<>>)
    /\ doc = NewCompiler(for_amis)

\* The "Meta" of the templates of SpecCompile.
CompileMetas == {Map(<< <<Sym("Name"), Sym("t")>> >>)}

NextCompile ==
    \/ ConstructMeta(CompileMetas)
    \/ ConstructSectionEntry(MaxEntries)
    \/ BeginCompile
    \/ ProcessSection
    \/ FinishCompile

SpecCompile == InitCompile /\ [][NextCompile]_vars

(***************************************************************************)
(* Properties of a compile (SpecCompile).                                  *)
(***************************************************************************)
\* C2: a compile that completes leaves the pending-unresolved set empty and
\* no variable reference in any section of its output; a reference that is
\* never bound makes the compile fail instead.
C2_NoUnresolvedVariableInOutput ==
    pc = "compiled" =>
        /\ template_state.unresolved_variables = {}
        /\ VarRefsIn(doc.val) = {}

RECURSIVE CondPaths(_, _)
RECURSIVE CondPathsIn(_, _, _)
\* The paths below v of the IfConditions, in the order of a walk: mapping
\* entries and list items in document order, so the condition of an If
\* before what its branches hold.
CondPaths(v, p) ==
    CASE IsCond(v) -> <<p>>
      [] IsMap(v) -> CondPathsIn(v, p, Len(v.map))
      [] IsList(v) -> CondPathsIn(v, p, Len(v.list))
      [] OTHER -> <<>>

CondPathsIn(v, p, n) ==
    IF n = 0 THEN <<>>
    ELSE CondPathsIn(v, p, n - 1) \o CondPaths(Child(v, n), Append(p, n))

\* The IfConditions the loaded template holds in a section.
Pending(sec) == CondPaths(SectionOf(reader_doc, sec), <<>>)

\* Their expressions.
PendingExprs(sec) ==
    [k \in 1..Len(Pending(sec)) |->
        At(SectionOf(reader_doc, sec), Pending(sec)[k]).cond]

CondName(k) == Str(<<"IfCondition", ToString(k)>>)

\* C3: after a compile no IfCondition remains in any section of the output,
\* and every name put in the place of one is a key of the Conditions
\* section bound to the expression of that condition.
C3_EveryConditionMaterialized ==
    pc = "compiled" =>
        /\ CondPaths(doc.val, <<>>) = <<>>
        /\ \A sec \in CompileSections :
              \A k \in 1..Len(Pending(sec)) :
                 /\ HasKey(doc.val, Sym("Conditions"))
                 /\ HasKey(Get(doc.val, Sym("Conditions")),
                           At(Get(doc.val, Sym(sec)), Pending(sec)[k]))
                 /\ Get(Get(doc.val, Sym("Conditions")),
                        At(Get(doc.val, Sym(sec)), Pending(sec)[k]))
                       = PendingExprs(sec)[k]

\* The condition table a compile is to end with: the conditions of the
\* Conditions section and then those of Resources, in walk order.
ExpectedConditions ==
    Map([k \in 1..(Len(Pending("Conditions")) + Len(Pending("Resources"))) |->
            <<CondName(k),
              (PendingExprs("Conditions") \o PendingExprs("Resources"))[k]>>])

\* C4: the N IfConditions of Conditions and Resources are named
\* IfCondition1..IfConditionN in the order of the walk (Conditions before
\* Resources, entries in document order, the condition of an If before the
\* conditions in its branches); the table lists them in that order, at the
\* end of the Conditions section, and each conditional node holds the name
\* under which its expression is registered.
C4_ConditionsNamedInWalkOrder ==
    pc = "compiled" =>
        /\ template_state.if_conditions = ExpectedConditions
        /\ \A k \in 1..Len(Pending("Conditions")) :
              At(Get(doc.val, Sym("Conditions")), Pending("Conditions")[k])
                  = CondName(k)
        /\ \A k \in 1..Len(Pending("Resources")) :
              At(Get(doc.val, Sym("Resources")), Pending("Resources")[k])
                  = CondName(Len(Pending("Conditions")) + k)
        /\ ExpectedConditions.map # <<>> =>
              SubSeq(Get(doc.val, Sym("Conditions")).map,
                     Len(Get(doc.val, Sym("Conditions")).map)
                         - Len(ExpectedConditions.map) + 1,
                     Len(Get(doc.val, Sym("Conditions")).map))
                  = ExpectedConditions.map

\* A condition in Conditions and an If nested in an If in Resources.
C4_ThreeConditionsNamed ==
    /\ pc = "compiled"
    /\ Len(Pending("Conditions")) = 1
    /\ Len(Pending("Resources")) = 2
    /\ Keys(template_state.if_conditions)
          = <<CondName(1), CondName(2), CondName(3)>>
    /\ Get(doc.val, Sym("Resources")).map[1][2]
          = IfNode(CondName(2), IfNode(CondName(3), Sym("x"), NoValue), NoValue)

\* The IfConditions materialized so far in a compile.
Materialized ==
    IF doc.meta = None \/ pc = "Conditions" THEN 0
    ELSE IF pc = "Resources" THEN Len(Pending("Conditions"))
    ELSE Len(Pending("Conditions")) + Len(Pending("Resources"))

\* C5: at every point of a compile the k-th materialized IfCondition has
\* the name numbered k, so no two share a name even when their expressions
\* are the same; there are as many registered conditions as
\* materializations, and a registered name is never bound to another
\* expression.
C5_ConditionNamesSequential ==
    /\ [](/\ Len(template_state.if_conditions.map) = Materialized
          /\ \A k \in 1..Len(template_state.if_conditions.map) :
                template_state.if_conditions.map[k][1] = CondName(k))
    /\ [][\A k \in 1..Len(template_state.if_conditions.map) :
             /\ k <= Len(template_state.if_conditions'.map)
             /\ template_state.if_conditions'.map[k]
                   = template_state.if_conditions.map[k]]_vars

\* Two IfConditions with the same expression, under two names.
C5_SameExpressionTwoNames ==
    /\ pc = "compiled"
    /\ Len(template_state.if_conditions.map) = 2
    /\ template_state.if_conditions.map[1][2]
          = template_state.if_conditions.map[2][2]
    /\ template_state.if_conditions.map[1][1]
          # template_state.if_conditions.map[2][1]

(***************************************************************************)
(* SpecMacro: TemplateLoader.construct_call_macro.  The reader loads a     *)
(* "--- !macros" document defining the macro m and a "--- !vars" document  *)
(* (reader_doc keeps the two as loaded, under "macros" and "vars"), and    *)
(* the template then calls m                                               *)
(* with different values; input is the sequence of the values of the       *)
(* calls and doc what the last call returned.  A call walks the stored     *)
(* content itself against a shallow copy of the variables: the lists       *)
(* below both are the objects the TemplateState holds.                     *)
(***************************************************************************)
MaxCalls == 3

\* The content of m: a list and a reference, two references, or the scalar
\* "x$$b".
MacroContents ==
    { List("list", <<List("list", <<Sym("p")>>), VarRef(<<"b">>, 1)>>),
      List("list", <<VarRef(<<"a">>, 1), VarRef(<<"b">>, 2)>>),
      List("vars", <<Sym("x"), VarRef(<<"b">>, 1)>>) }

MacroScopes ==
    { Map(<< <<Sym("a"), List("list", <<Sym("p")>>)>> >>),
      Map(<< <<Sym("a"), Sym("p")>> >>) }

CallValues ==
    { Map(<<>>), Map(<< <<Sym("b"), Sym("y")>> >>),
      Map(<< <<Sym("b"), Sym("z")>> >>) }

\* The "--- !macros" document that defines m with this content.
MacrosDoc(content) ==
    Map(<< <<Sym("m"),
             Map(<< <<Sym("defaultParams"), Map(<< <<Sym("b"), Sym("d")>> >>)>>,
                    <<Sym("content"), content>> >>)>> >>)

\* TemplateReader.load_string, the MacrosDoc branch: a document defining m
\* with the default b = d.  The references of the content were unresolved
\* when its scalars were parsed.
LoadMacros ==
    /\ pc = "reading"
    /\ \E content \in MacroContents :
          /\ reader_doc' = SetItem(reader_doc, Sym("macros"), MacrosDoc(content))
          /\ template_state' =
                 [template_state EXCEPT
                      !.macros = Update(@, MacrosDoc(content)),
                      !.unresolved_variables = @ \cup VarRefsIn(content)]
    /\ pc' = "macros"
    /\ UNCHANGED <<input, parser, doc>>

\* TemplateReader.load_string, the VariablesDoc branch, for a document of
\* literal values.
LoadScope ==
    /\ pc = "macros"
    /\ \E sc \in MacroScopes :
          /\ doc' = Returned(resolve_variables(template_state, sc))
          /\ template_state' =
                 [Finished(template_state,
                           resolve_variables(template_state, sc).st)
                     EXCEPT !.variables =
                         Update(@, resolve_variables(template_state, sc).val)]
          /\ reader_doc' = SetItem(reader_doc, Sym("vars"), sc)
    /\ pc' = "ready"
    /\ UNCHANGED <<input, parser>>

\* macro.get('defaultParams', {})
DefaultParams(macro) ==
    IF HasKey(macro, Sym("defaultParams"))
        THEN Get(macro, Sym("defaultParams"))
        ELSE Map(<<>>)

\* variables.copy(), .update(defaultParams), .update(values)
CallScope(ts, macro, values) ==
    Update(Update(ts.variables, DefaultParams(macro)), values)

\* template_state.resolve(name, template_state.macros): name is the dotted
\* path as the sequence of its segments.
ResolveMacro(ts, name) == resolve(name, StoreOf(ts, ts.macros, ts.macros, TRUE))

\* The dict the name resolves to.
MacroOf(ts, name) ==
    Val(ResolveMacro(ts, name).e, StoreOf(ts, ts.macros, ts.macros, TRUE))

\* The name resolves to a dict that has a content.
IsMacro(ts, name) ==
    /\ ResolveMacro(ts, name).err = ""
    /\ IsMap(MacroOf(ts, name))
    /\ HasKey(MacroOf(ts, name), Sym("content"))

\* Where macro['content'] is below template_state.macros.
ContentPath(ts, name) ==
    Append(ResolveMacro(ts, name).e.p,
           KeyIndex(MacroOf(ts, name).map, Sym("content")))

\* TemplateLoader._process_macro
process_macro(ts, name, values) ==
    LET r == process_tree(Handle("t", ContentPath(ts, name)),
                          StoreOf(ts, ts.macros,
                                  CallScope(ts, MacroOf(ts, name), values),
                                  FALSE),
                          TRUE, FALSE)
    IN  IF r.st.err = "KeyError"
            THEN [st |-> Raise(r.st, "ConstructorError"), val |-> r.val]
            ELSE r

\* TemplateLoader.construct_call_macro: only a KeyError of the lookup is
\* turned into a ConstructorError.
construct_call_macro(ts, name, values) ==
    IF ResolveMacro(ts, name).err = "KeyError"
        THEN [st |-> Raise(StoreOf(ts, ts.macros, ts.variables, FALSE),
                           "ConstructorError"),
              val |-> EmptyStr]
    ELSE IF ResolveMacro(ts, name).err # "" \/ ~IsMap(MacroOf(ts, name))
        THEN [st |-> Raise(StoreOf(ts, ts.macros, ts.variables, FALSE),
                           "TypeError"),
              val |-> EmptyStr]
    ELSE IF ~HasKey(MacroOf(ts, name), Sym("content"))
        THEN [st |-> Raise(StoreOf(ts, ts.macros, ts.variables, FALSE),
                           "ConstructorError"),
              val |-> EmptyStr]
    ELSE process_macro(ts, name, values)

\* The values of the dict m as the call left them: the value of a key the
\* call's scope took from m is the object the scope holds.
SharedValues(m, scope, overridden) ==
    Map([i \in 1..Len(m.map) |->
            IF HasKey(overridden, m.map[i][1]) THEN m.map[i]
            ELSE <<m.map[i][1], Get(scope, m.map[i][1])>>])

\* The macros after a call that ended in the store st.
MacrosAfter(ts, name, values, st) ==
    IF HasKey(MacroOf(ts, name), Sym("defaultParams"))
        THEN SetAt(st.tree,
                   Append(ResolveMacro(ts, name).e.p,
                          KeyIndex(MacroOf(ts, name).map, Sym("defaultParams"))),
                   SharedValues(DefaultParams(MacroOf(ts, name)),
                                st.scope, values))
        ELSE st.tree

\* The TemplateState after a call of the macro name that ended in st.
StateAfterCall(ts, name, values, st) ==
    IF ~IsMacro(ts, name) THEN ts
    ELSE [Finished(ts, st) EXCEPT
              !.macros = MacrosAfter(ts, name, values, st),
              !.variables =
                  SharedValues(ts.variables, st.scope,
                               Update(DefaultParams(MacroOf(ts, name)),
                                      values))]

\* One "!call-macro" of m in the template.
CallMacro(max) ==
    /\ pc \in {"ready", "called"}
    /\ Len(input) < max
    /\ \E values \in CallValues :
          /\ doc' = Returned(construct_call_macro(template_state, <<"m">>, values))
          /\ template_state' =
                 StateAfterCall(template_state, <<"m">>, values,
                                construct_call_macro(template_state, <<"m">>,
                                                     values).st)
          /\ input' = Append(input, values)
    /\ pc' = "called"
    /\ UNCHANGED <<parser, reader_doc>>

InitMacro ==
    /\ pc = "reading"
    /\ input = <<>>
    /\ parser = NewParser(1)
    /\ template_state = NewTemplateState
    /\ reader_doc = Map(<<>>)
    /\ doc = NoDoc

NextMacro == LoadMacros \/ LoadScope \/ CallMacro(MaxCalls)

SpecMacro == InitMacro /\ [][NextMacro]_vars

(***************************************************************************)
(* Properties of the macro calls (SpecMacro).                              *)
(***************************************************************************)
\* The TemplateState as the two documents left it.
Loaded ==
    [NewTemplateState EXCEPT !.macros = Get(reader_doc, Sym("macros")),
                             !.variables = Get(reader_doc, Sym("vars"))]

\* C10: a macro call leaves the stored macro (defaults and content) and the
\* shared variables (the values they hold included) as they were loaded,
\* and returns what the same call returns when no call came before it.
C10_MacroCallsDoNotLeak ==
    pc = "called" =>
        /\ template_state.macros = Loaded.macros
        /\ template_state.variables = Loaded.variables
        /\ doc = Returned(construct_call_macro(Loaded, <<"m">>, Last(input)))


(***************************************************************************)
(* Macro calls and their scope (SpecScope): a "!vars" document and a       *)
(* "!macros" document, read in either order, then "!call-macro"            *)
(* statements.  input holds the macro definition as it was written, then   *)
(* the calls.                                                              *)
(***************************************************************************)
\* The "!vars" documents: none of the names, or b.
AmbientScopes == {Map(<<>>), Map(<< <<Sym("b"), Sym("amb")>> >>)}

\* The content scalars of the macro m: "$$b" and "x$$b".
ScopeContents ==
    {<<TokLine, TokVar(<<"b">>)>>,
     <<TokLine, TokText(<<"x">>), TokVar(<<"b">>)>>}

\* The names the calls give: m, and names that lead to no macro.
MacroNames ==
    {<<"m">>, <<"n">>, <<"m", "x">>, <<"m", "defaultParams", "b", "x">>}

\* The macros document "m: {content: <content>}", without defaultParams.
MacrosDocNoDefaults(content) ==
    Map(<< <<Sym("m"), Map(<< <<Sym("content"), content>> >>)>> >>)

\* TemplateReader.load_string, the VariablesDoc branch.
LoadAmbient ==
    /\ pc \in {"reading", "macros"}
    /\ \E sc \in AmbientScopes :
          /\ template_state' =
                 [Finished(template_state,
                           resolve_variables(template_state, sc).st)
                     EXCEPT !.variables =
                         Update(@, resolve_variables(template_state, sc).val)]
          /\ reader_doc' = SetItem(reader_doc, Sym("vars"), sc)
    /\ pc' = IF pc = "reading" THEN "vars" ELSE "ready"
    /\ UNCHANGED <<input, parser, doc>>

\* TemplateReader.load_string, the MacrosDoc branch: the content scalar is
\* constructed (construct_string) against the variables known so far.
DefineMacro ==
    /\ pc \in {"reading", "vars"}
    /\ \E toks \in ScopeContents, defaults \in BOOLEAN :
          /\ construct_string(toks).st.err = ""
          /\ template_state' =
                 [Finished(template_state, construct_string(toks).st)
                     EXCEPT !.macros =
                         Update(@, IF defaults
                                       THEN MacrosDoc(construct_string(toks).val)
                                       ELSE MacrosDocNoDefaults(
                                                construct_string(toks).val))]
          /\ parser' = NextParser(toks)
          /\ input' = Append(input, [toks |-> toks, defaults |-> defaults])
    /\ pc' = IF pc = "reading" THEN "macros" ELSE "ready"
    /\ UNCHANGED <<reader_doc, doc>>

\* One "!call-macro" statement of the template.
CallMacroNamed(max) ==
    /\ pc \in {"ready", "called"}
    /\ Len(input) <= max
    /\ \E name \in MacroNames, values \in CallValues :
          /\ doc' = Returned(construct_call_macro(template_state, name, values))
          /\ template_state' =
                 StateAfterCall(template_state, name, values,
                                construct_call_macro(template_state, name,
                                                     values).st)
          /\ input' = Append(input, [name |-> name, values |-> values])
    /\ pc' = "called"
    /\ UNCHANGED <<parser, reader_doc>>

NextScope == LoadAmbient \/ DefineMacro \/ CallMacroNamed(MaxCalls)

SpecScope == InitMacro /\ [][NextScope]_vars

(***************************************************************************)
(* Properties of the scope of a macro call (SpecScope).                    *)
(***************************************************************************)
\* The scope the call Last(input) is to see: the "!vars" document, then the
\* declared defaults, then the values of the call.
DeclaredScope ==
    Update(Update(Get(reader_doc, Sym("vars")),
                  IF input[1].defaults
                      THEN Map(<< <<Sym("b"), Sym("d")>> >>)
                      ELSE Map(<<>>)),
           Last(input).values)

\* The content as written, with b replaced by its value in DeclaredScope.
DeclaredResult ==
    IF Len(input[1].toks) = 2
        THEN Get(DeclaredScope, Sym("b"))
        ELSE Str(<<"x">> \o Get(DeclaredScope, Sym("b")).str)

\* C11: a call of the macro m returns its content with b taken from the
\* scope "ambient variables, then defaults, then call-site values" (the
\* later ones winning), and a call of a name that leads to no macro fails
\* with the reference error.
C11_CallScopePrecedence ==
    pc = "called" =>
        IF Last(input).name # <<"m">>
            THEN doc.err = "ConstructorError"
        ELSE IF HasKey(DeclaredScope, Sym("b"))
            THEN doc = [err |-> "", val |-> DeclaredResult]
        ELSE doc.err = "ConstructorError"


(***************************************************************************)
(* The compile of a template with parameters and resources (SpecStack).    *)
(* reader_doc is the template document as the reader built it, input the   *)
(* entries as they were written, doc the compiler.                         *)
(***************************************************************************)
MaxItems == 2

LookupAnnotation ==
    Map(<< <<Sym("StackName"), Sym("my-stack")>>,
           <<Sym("OutputName"), Sym("SomeOutput")>> >>)

\* A parameter definition with the given extra entries.
ParamDoc(extra) == Map(<< <<Sym("Type"), Sym("String")>> >> \o extra)

\* The parameter definitions of a template; the last one is "p: x", no
\* mapping.
ParamDocs ==
    { ParamDoc(<<>>),
      ParamDoc(<< <<Sym("LookupFromStack"), LookupAnnotation>> >>),
      ParamDoc(<< <<Sym("Required"), Sym("false")>> >>),
      ParamDoc(<< <<Sym("Required"), Sym("True")>>,
                  <<Sym("LookupFromStack"), LookupAnnotation>> >>),
      ParamDoc(<< <<Sym("Required"), Sym("yes")>> >>),
      Sym("x") }

\* "Metadata: {CloudPuff: {...}}"
CloudPuffMetadata(entries) ==
    <<Sym("Metadata"), Map(<< <<Sym("CloudPuff"), Map(entries)>> >>)>>

\* The resources of a template: an instance with a name format, one with a
\* previous AMI too, an instance without the metadata, and a resource of
\* another type that has it.
ResourceDocs ==
    { Map(<< <<Sym("Type"), Sym("AWS::EC2::Instance")>>,
             CloudPuffMetadata(<< <<Sym("AMINameFormat"), Sym("fmt")>> >>) >>),
      Map(<< <<Sym("Type"), Sym("AWS::EC2::Instance")>>,
             CloudPuffMetadata(<< <<Sym("AMINameFormat"), Sym("fmt")>>,
                                  <<Sym("PreviousAMI"), Sym("ami")>> >>) >>),
      Map(<< <<Sym("Type"), Sym("AWS::EC2::Instance")>> >>),
      Map(<< <<Sym("Type"), Sym("AWS::S3::Bucket")>>,
             CloudPuffMetadata(<< <<Sym("AMINameFormat"), Sym("fmt")>> >>) >>) }

\* construct_ordered_mapping: one more entry of the section sec.
ConstructItem(sec, values, max) ==
    /\ pc = "reading"
    /\ EntryCount(reader_doc, Len(reader_doc.map)) < max
    /\ \E v \in values :
          /\ reader_doc' =
                 SetItem(reader_doc, Sym(sec),
                         SetItem(SectionOf(reader_doc, sec),
                                 EntryKey(SectionOf(reader_doc, sec)), v))
          /\ input' = Append(input, [name |-> sec, value |-> v])
    /\ UNCHANGED <<pc, parser, template_state, doc>>

ConstructParameter(max) == ConstructItem("Parameters", ParamDocs, max)

ConstructResource(max) == ConstructItem("Resources", ResourceDocs, max)

\* TemplateCompiler(for_amis) and the reader of its load_string.
InitStack ==
    /\ pc = "reading"
    /\ input = <<>>
    /\ parser = NewParser(1)
    /\ \E fa \in BOOLEAN :
          /\ template_state =
                 [NewTemplateState EXCEPT
                      !.variables = Map(<< <<Sym("buildingAMIs"),
                                             IF fa THEN Sym("true")
                                             ELSE Sym("false")>> >>)]
          /\ doc = NewCompiler(fa)
    /\ reader_doc = Map(<<>>)

NextStack ==
    \/ ConstructMeta(CompileMetas)
    \/ ConstructParameter(MaxItems)
    \/ ConstructResource(MaxItems)
    \/ BeginCompile
    \/ ProcessSection
    \/ FinishCompile

SpecStack == InitStack /\ [][NextStack]_vars

(***************************************************************************)
(* Properties of the compile (SpecStack).                                  *)
(***************************************************************************)
\* C12: when load_string has failed, self.doc holds no template (it is
\* what it was before the call, None), so to_json has none to emit.
C12_FailedCompileLeavesNoDocument ==
    pc = "failed" => doc.val = None

\* The parameters the template declares, as pairs.
DeclaredParams == SectionOf(reader_doc, "Parameters").map

\* The parameter says "Required: false".
DeclaredNotRequired(param) ==
    /\ HasKey(param, Sym("Required"))
    /\ Lower(Get(param, Sym("Required")).str) = <<"false">>

\* The i-th declared parameter as the compile has to leave it.
ParamPostProcessed(i) ==
    /\ ~HasKey(Get(Get(doc.val, Sym("Parameters")), DeclaredParams[i][1]),
               Sym("LookupFromStack"))
    /\ ~HasKey(Get(Get(doc.val, Sym("Parameters")), DeclaredParams[i][1]),
               Sym("Required"))
    /\ HasKey(doc.stack_param_lookups, DeclaredParams[i][1])
           <=> HasKey(DeclaredParams[i][2], Sym("LookupFromStack"))
    /\ HasKey(doc.stack_param_lookups, DeclaredParams[i][1]) =>
           Get(doc.stack_param_lookups, DeclaredParams[i][1])
               = Get(DeclaredParams[i][2], Sym("LookupFromStack"))
    /\ HasKey(doc.required_params, DeclaredParams[i][1])
    /\ Get(doc.required_params, DeclaredParams[i][1])
           = Bool(~DeclaredNotRequired(DeclaredParams[i][2]))

\* C19: after a compile every declared parameter has neither
\* LookupFromStack nor Required in its definition, is in
\* stack_param_lookups exactly when it had a LookupFromStack, with that
\* value, and is in required_params, true unless it declared itself not
\* required.
C19_ParamsPostProcessed ==
    pc = "compiled" =>
        \A i \in 1..Len(DeclaredParams) : ParamPostProcessed(i)

\* The resources the template declares, as pairs.
DeclaredResources == SectionOf(reader_doc, "Resources").map

\* The CloudPuff metadata of a declared resource, {} when it has none.
DeclaredMetadata(resource) ==
    IF HasKey(resource, Sym("Metadata"))
           /\ HasKey(Get(resource, Sym("Metadata")), Sym("CloudPuff"))
        THEN Get(Get(resource, Sym("Metadata")), Sym("CloudPuff"))
    ELSE Map(<<>>)

\* The declared resources that are instances with an AMI name format.
AnnotatedInstances ==
    {i \in 1..Len(DeclaredResources) :
        /\ Get(DeclaredResources[i][2], Sym("Type"))
               = Sym("AWS::EC2::Instance")
        /\ HasKey(DeclaredMetadata(DeclaredResources[i][2]),
                  Sym("AMINameFormat"))}

\* The key of an output of the resource called name.
OutputKey(name, what) == Str(<<"CloudPuff">> \o name.str \o <<what>>)

\* The outputs of the compiled template, {} when it has none.
CompiledOutputs ==
    IF HasKey(doc.val, Sym("Outputs")) THEN Get(doc.val, Sym("Outputs"))
    ELSE Map(<<>>)

\* The value of the output under key is value.
OutputIs(key, value) ==
    /\ HasKey(CompiledOutputs, key)
    /\ Get(Get(CompiledOutputs, key), Sym("Value")) = value

\* The outputs of the i-th declared resource are there.
HasAMIOutputs(i) ==
    /\ OutputIs(OutputKey(DeclaredResources[i][1], "InstanceID"),
                Map(<< <<Sym("Ref"), DeclaredResources[i][1]>> >>))
    /\ OutputIs(OutputKey(DeclaredResources[i][1], "AMINameFormat"),
                Get(DeclaredMetadata(DeclaredResources[i][2]),
                    Sym("AMINameFormat")))
    /\ HasKey(CompiledOutputs,
              OutputKey(DeclaredResources[i][1], "PreviousAMI"))
           <=> HasKey(DeclaredMetadata(DeclaredResources[i][2]),
                      Sym("PreviousAMI"))
    /\ HasKey(DeclaredMetadata(DeclaredResources[i][2]), Sym("PreviousAMI"))
           => OutputIs(OutputKey(DeclaredResources[i][1], "PreviousAMI"),
                       Get(DeclaredMetadata(DeclaredResources[i][2]),
                           Sym("PreviousAMI")))

\* The records of ami_outputs for the i-th declared resource.
RecordsOf(i) ==
    {k \in 1..Len(doc.ami_outputs) :
        doc.ami_outputs[k].resource_name = DeclaredResources[i][1]}

\* Each record of ami_outputs holds the three keys of its resource.
RecordsGroupKeys ==
    \A k \in 1..Len(doc.ami_outputs) :
        doc.ami_outputs[k].outputs =
            [previous_ami_key |->
                 OutputKey(doc.ami_outputs[k].resource_name, "PreviousAMI"),
             instance_id_key |->
                 OutputKey(doc.ami_outputs[k].resource_name, "InstanceID"),
             name_format_key |->
                 OutputKey(doc.ami_outputs[k].resource_name, "AMINameFormat")]

\* C20: after a compile for AMIs every instance with an AMINameFormat has
\* its instance-id and name-format outputs, and a previous-AMI output
\* exactly when it declares one, under the keys made from its name, and
\* exactly one record in ami_outputs, which has no other record; the other
\* resources get no output.  After a compile that is not for AMIs there is
\* no output and ami_outputs is empty.
C20_AMIOutputsPerAnnotatedInstance ==
    pc = "compiled" =>
        IF doc.for_amis
            THEN /\ \A i \in AnnotatedInstances :
                        HasAMIOutputs(i) /\ Cardinality(RecordsOf(i)) = 1
                 /\ Len(doc.ami_outputs) = Cardinality(AnnotatedInstances)
                 /\ RecordsGroupKeys
                 /\ \A j \in 1..Len(CompiledOutputs.map) :
                        \E i \in AnnotatedInstances,
                           what \in {"InstanceID", "AMINameFormat",
                                     "PreviousAMI"} :
                            CompiledOutputs.map[j][1]
                                = OutputKey(DeclaredResources[i][1], what)
            ELSE CompiledOutputs = Map(<<>>) /\ doc.ami_outputs = <<>>

\* A compile for AMIs of two instances with a name format, the first with
\* a previous AMI, the second without.
C20_TwoInstancesOnePreviousAMI ==
    /\ pc = "compiled"
    /\ doc.for_amis
    /\ Len(doc.ami_outputs) = 2
    /\ Len(CompiledOutputs.map) = 5
    /\ HasKey(CompiledOutputs, Str(<<"CloudPuff", "k", "1", "PreviousAMI">>))
    /\ HasKey(CompiledOutputs, Str(<<"CloudPuff", "k", "2", "InstanceID">>))
    /\ ~HasKey(CompiledOutputs, Str(<<"CloudPuff", "k", "2", "PreviousAMI">>))


(***************************************************************************)
(* SpecCollapse: scalars made of text pieces and references to v, parsed   *)
(* with v defined or not and then processed again by later passes.  Two    *)
(* text pieces in a row are two lines of text.                             *)
(***************************************************************************)
MaxLines == 4

CollapseTexts == {<<"x">>, <<"y">>}

\* One more line of text, whatever the line before it.
PlainLine(max) == \E s \in CollapseTexts : Read(TokText(s), max)

NextCollapse ==
    \/ PlainLine(MaxLines)
    \/ VarLine(MaxLines)
    \/ ParseEnd
    \/ Reprocess

SpecCollapse == InitFold /\ [][NextCollapse]_vars

(***************************************************************************)
(* Properties of the collapsed sequences (SpecCollapse).                   *)
(***************************************************************************)
RECURSIVE NoAdjacentStrings(_)
\* No list below v holds two plain strings next to each other.
NoAdjacentStrings(v) ==
    CASE IsMap(v) -> \A i \in 1..Len(v.map) : NoAdjacentStrings(v.map[i][2])
      [] IsList(v) ->
             /\ \A i \in 1..Len(v.list) : NoAdjacentStrings(v.list[i])
             /\ \A i \in 1..(Len(v.list) - 1) :
                   ~(IsStr(v.list[i]) /\ IsStr(v.list[i + 1]))
      [] OTHER -> TRUE

RECURSIVE SourceText(_, _)
SourceText(toks, n) ==
    IF n = 0 THEN <<>>
    ELSE SourceText(toks, n - 1)
             \o (IF toks[n].t = "text" THEN toks[n].s ELSE <<"V">>)

\* The places where two text pieces are next to each other in the source.
TextBreaks(toks) ==
    {i \in 1..(Len(toks) - 1) : toks[i].t = "text" /\ toks[i + 1].t = "text"}

\* The items of the sequence a scalar was collapsed to: parse_string gives
\* a lone item as it is and wraps several in a join node.
CollapsedItems(v) == IF IsStr(v) THEN <<v>> ELSE v.map[1][2].list[2].list

IsVarsString(toks) ==
    /\ \A i \in 1..Len(toks) : toks[i].t \in {"text", "var"}
    /\ \E i \in 1..Len(toks) : toks[i].t = "var"

\* C14: a scalar of text and references that was parsed with v undefined (a
\* VarsStringsList) is a single string, the source with the references
\* replaced in order, as soon as a later pass has resolved every reference,
\* whichever pass that is.
C14_CollapsesToOneString ==
    (/\ pc = "reprocessed"
     /\ doc.err = ""
     /\ IsVarsString(input)
     /\ ~HasKey(template_state.variables, Sym("v"))
     /\ VarRefsIn(doc.val) = {})
        => doc.val = Str(SourceText(input, Len(input)))


(***************************************************************************)
(* ExpressionParser (SpecExpr): the condition of an If, as the tokens      *)
(* _iter_tokens yields for it.  input is the tokens of the expression, doc *)
(* what parse returned or raised.                                          *)
(***************************************************************************)
LeftParen == [name |-> "LEFTPAREN"]
RightParen == [name |-> "RIGHTPAREN"]
Op(op) == [name |-> "OP", value |-> op]
Value(v) == [name |-> "VALUE", value |-> v]

\* IfBlockFunction.EXPR_OPS
EXPR_OPS ==
    [op \in {"||", "&&", "==", "!="} |->
        [precedence |-> CASE op = "||" -> 1 [] op = "&&" -> 2 [] OTHER -> 3,
         assoc |-> "LEFT"]]

\* _process_op of IfBlockFunction.parse_params
process_op(op, lhs, rhs) ==
    CASE op = "||" ->
             Map(<< <<FnName("Or"), List("uncoll", <<lhs, rhs>>)>> >>)
      [] op = "&&" ->
             Map(<< <<FnName("And"), List("uncoll", <<lhs, rhs>>)>> >>)
      [] op = "==" -> EqualsExpr(lhs, rhs)
      [] op = "!=" ->
             Map(<< <<FnName("Not"),
                      List("list", <<EqualsExpr(lhs, rhs)>>)>> >>)

\* A next_min_precedence that takes every operator as right-associative.
NextMinPrecedenceSame(op) == EXPR_OPS[op].precedence

\* "if assoc == 'LEFT': next_min_precedence = precedence + 1"
NextMinPrecedence(op) ==
    IF EXPR_OPS[op].assoc = "LEFT" THEN EXPR_OPS[op].precedence + 1
    ELSE EXPR_OPS[op].precedence

ExprError(what, pos) == [err |-> what, val |-> None, pos |-> pos]

RECURSIVE compute_expression(_, _, _)
RECURSIVE compute_atom(_, _)
RECURSIVE ComputeOps(_, _, _)

\* _compute_atom after the sub-expression of a "(": _cur_token is None at
\* the end of the tokens, and None has no name.
CloseParen(toks, r) ==
    IF r.err # "" THEN r
    ELSE IF r.pos > Len(toks) THEN ExprError("AttributeError", r.pos)
    ELSE IF toks[r.pos].name # "RIGHTPAREN"
        THEN ExprError("ExpressionParseError", r.pos)
    ELSE [r EXCEPT !.pos = @ + 1]

\* ExpressionParser._compute_atom with _cur_token = toks[pos] (None past the
\* end).  A RIGHTPAREN matches no branch: the method returns None and
\* consumes nothing.
compute_atom(toks, pos) ==
    IF pos > Len(toks) THEN ExprError("ExpressionParseError", pos)
    ELSE IF toks[pos].name = "LEFTPAREN"
        THEN CloseParen(toks, compute_expression(toks, pos + 1, 1))
    ELSE IF toks[pos].name = "OP" THEN ExprError("ExpressionParseError", pos)
    ELSE IF toks[pos].name = "VALUE"
        THEN [err |-> "", val |-> toks[pos].value, pos |-> pos + 1]
    ELSE [err |-> "", val |-> None, pos |-> pos]

\* lhs = self._compute_op(op, lhs, rhs)
ComputeOp(op, lhs, rhs) ==
    IF rhs.err # "" THEN rhs
    ELSE [err |-> "", val |-> process_op(op, lhs.val, rhs.val), pos |-> rhs.pos]

\* The while loop of _compute_expression, lhs computed so far.
ComputeOps(toks, lhs, min_precedence) ==
    IF lhs.err # "" THEN lhs
    ELSE IF lhs.pos > Len(toks) THEN lhs
    ELSE IF toks[lhs.pos].name # "OP" THEN lhs
    ELSE IF EXPR_OPS[toks[lhs.pos].value].precedence < min_precedence THEN lhs
    ELSE ComputeOps(toks,
                    ComputeOp(toks[lhs.pos].value, lhs,
                              compute_expression(
                                  toks, lhs.pos + 1,
                                  NextMinPrecedence(toks[lhs.pos].value))),
                    min_precedence)

\* ExpressionParser._compute_expression
compute_expression(toks, pos, min_precedence) ==
    ComputeOps(toks, compute_atom(toks, pos), min_precedence)

\* ExpressionParser.parse
parse(toks) == compute_expression(toks, 1, 1)

MaxExprTokens == 4
MaxExprLength == 7

ExprTokens ==
    {LeftParen, RightParen} \cup {Op(op) : op \in DOMAIN EXPR_OPS}
        \cup {Value(Sym("a")), Value(Sym("b"))}

\* Where a reader of the tokens stands: whether an operand comes next, and
\* how many parentheses are open; ok is FALSE once a token came that cannot
\* follow.
ScanToken(s, tok) ==
    IF ~s.ok THEN s
    ELSE IF s.operand
        THEN CASE tok.name = "VALUE" -> [s EXCEPT !.operand = FALSE]
               [] tok.name = "LEFTPAREN" -> [s EXCEPT !.depth = @ + 1]
               [] OTHER -> [s EXCEPT !.ok = FALSE]
    ELSE CASE tok.name = "OP" -> [s EXCEPT !.operand = TRUE]
           [] tok.name = "RIGHTPAREN" /\ s.depth > 0 ->
                  [s EXCEPT !.depth = @ - 1]
           [] OTHER -> [s EXCEPT !.ok = FALSE]

RECURSIVE Scan(_, _)
Scan(toks, n) ==
    IF n = 0 THEN [ok |-> TRUE, operand |-> TRUE, depth |-> 0]
    ELSE ScanToken(Scan(toks, n - 1), toks[n])

\* _iter_tokens: one more token, whatever it is.
ReadToken(max) ==
    /\ pc = "lexing"
    /\ Len(input) < max
    /\ \E tok \in ExprTokens : input' = Append(input, tok)
    /\ UNCHANGED <<pc, parser, template_state, reader_doc, doc>>

\* _iter_tokens: one more token of an expression that is well formed so
\* far, with at most one parenthesis open.
ReadNext(max) ==
    /\ pc = "lexing"
    /\ Len(input) < max
    /\ \E tok \in ExprTokens :
          /\ Scan(Append(input, tok), Len(input) + 1).ok
          /\ Scan(Append(input, tok), Len(input) + 1).depth <= 1
          /\ input' = Append(input, tok)
    /\ UNCHANGED <<pc, parser, template_state, reader_doc, doc>>

\* tokenizer.parse(params_str)
Parse ==
    /\ pc = "lexing"
    /\ doc' = [err |-> parse(input).err, val |-> parse(input).val]
    /\ pc' = "parsed"
    /\ UNCHANGED <<input, parser, template_state, reader_doc>>

InitExpr ==
    /\ pc = "lexing"
    /\ input = <<>>
    /\ parser = NewParser(1)
    /\ template_state = NewTemplateState
    /\ reader_doc = Map(<<>>)
    /\ doc = NoDoc

NextExpr == ReadToken(MaxExprTokens) \/ ReadNext(MaxExprLength) \/ Parse

SpecExpr == InitExpr /\ [][NextExpr]_vars

(***************************************************************************)
(* Properties of the expression parser (SpecExpr).                         *)
(***************************************************************************)
\* The expression is complete: every operator has its operands and every
\* parenthesis is closed.
WellFormed(toks) ==
    /\ Scan(toks, Len(toks)).ok
    /\ ~Scan(toks, Len(toks)).operand
    /\ Scan(toks, Len(toks)).depth = 0

\* The operator at the root of a tree ("" for a value).
RootOp(v) ==
    IF ~IsMap(v) THEN ""
    ELSE CASE v.map[1][1] = FnName("Or") -> "||"
           [] v.map[1][1] = FnName("And") -> "&&"
           [] v.map[1][1] = FnName("Equals") -> "=="
           [] v.map[1][1] = FnName("Not") -> "!="
           [] OTHER -> "?"

\* The two operands under the root of a tree: those of the equality for the
\* negation of an equality.
Operands(v) ==
    IF v.map[1][1] = FnName("Not")
        THEN v.map[1][2].list[1].map[1][2].list
        ELSE v.map[1][2].list

\* A negation holds one equality.
NotWrapsEquals(v) ==
    v.map[1][1] = FnName("Not") =>
        /\ Len(v.map[1][2].list) = 1
        /\ IsMap(v.map[1][2].list[1])
        /\ v.map[1][2].list[1].map[1][1] = FnName("Equals")

RECURSIVE Yield(_)
\* The tokens of a tree read from left to right, without parentheses.
Yield(v) ==
    IF ~IsMap(v) THEN <<Value(v)>>
    ELSE Yield(Operands(v)[1]) \o <<Op(RootOp(v))>> \o Yield(Operands(v)[2])

RECURSIVE Grouped(_)
\* Every operator of the tree has on its left nothing that binds looser and
\* on its right only what binds tighter.
Grouped(v) ==
    IF ~IsMap(v) THEN TRUE
    ELSE /\ RootOp(v) \in DOMAIN EXPR_OPS
         /\ NotWrapsEquals(v)
         /\ Len(Operands(v)) = 2
         /\ \/ ~IsMap(Operands(v)[1])
            \/ EXPR_OPS[RootOp(Operands(v)[1])].precedence
                   >= EXPR_OPS[RootOp(v)].precedence
         /\ \/ ~IsMap(Operands(v)[2])
            \/ EXPR_OPS[RootOp(Operands(v)[2])].precedence
                   > EXPR_OPS[RootOp(v)].precedence
         /\ Grouped(Operands(v)[1])
         /\ Grouped(Operands(v)[2])

RECURSIVE Subtrees(_)
Subtrees(v) ==
    IF ~IsMap(v) THEN {v}
    ELSE {v} \cup Subtrees(Operands(v)[1]) \cup Subtrees(Operands(v)[2])

Unparenthesized(toks) ==
    SelectSeq(toks, LAMBDA t : t.name \notin {"LEFTPAREN", "RIGHTPAREN"})

\* C15: for a complete expression parse returns the tree whose operators
\* and values, read from left to right, are those of the expression; when
\* the expression has no parentheses an operator has on its left only
\* operators of the same or a higher precedence and on its right only
\* operators of a higher precedence ("||" 1, "&&" 2, "==" and "!=" 3); the
\* tree of a parenthesized sub-expression is a subtree of the result
\* whatever surrounds it; "!=" is a negation holding one equality.
C15_GroupsByPrecedenceLeftToRight ==
    (pc = "parsed" /\ WellFormed(input)) =>
        /\ doc.err = ""
        /\ Yield(doc.val) = Unparenthesized(input)
        /\ Unparenthesized(input) = input => Grouped(doc.val)
        /\ \A i \in 1..Len(input), j \in 1..Len(input) :
              (/\ i < j
               /\ input[i].name = "LEFTPAREN"
               /\ input[j].name = "RIGHTPAREN"
               /\ WellFormed(SubSeq(input, i + 1, j - 1)))
                  => parse(SubSeq(input, i + 1, j - 1)).val \in Subtrees(doc.val)

\* "a && (a || b)": the parenthesized "||", which binds looser than "&&",
\* is the right operand of "&&".
C15_ParenthesizedUnit ==
    /\ pc = "parsed"
    /\ input = <<Value(Sym("a")), Op("&&"), LeftParen, Value(Sym("a")),
                 Op("||"), Value(Sym("b")), RightParen>>
    /\ doc = [err |-> "",
              val |-> process_op("&&", Sym("a"),
                                 process_op("||", Sym("a"), Sym("b")))]

\* C16: parse raises ExpressionParseError when an operator stands where a
\* value is expected, and when the tokens end where a value is expected or
\* while a parenthesis is open.
C16_MalformedIsSyntaxError ==
    pc = "parsed" =>
        /\ (\E n \in 0..(Len(input) - 1) :
               /\ Scan(input, n).ok
               /\ Scan(input, n).operand
               /\ input[n + 1].name = "OP")
              => doc.err = "ExpressionParseError"
        /\ (/\ Scan(input, Len(input)).ok
            /\ \/ Scan(input, Len(input)).operand
               \/ Scan(input, Len(input)).depth > 0)
              => doc.err = "ExpressionParseError"


(***************************************************************************)
(* The merge key (SpecMerge): construct_ordered_mapping on one mapping     *)
(* node.  input is the pairs of the node in the order they are written,    *)
(* doc the dict the constructor returned.                                  *)
(***************************************************************************)
MaxPairs == 3

MergeKey == Sym("<")

\* The keys and values written literally in the mapping.
SiblingKeys == {Sym("a"), Sym("b")}
SiblingValues == {Sym("lit1"), Sym("lit2")}

\* The mappings a merge key holds.
SplicedMaps ==
    { Map(<< <<Sym("a"), Sym("s")>> >>),
      Map(<< <<Sym("c"), Sym("s")>> >>),
      Map(<< <<Sym("c"), Sym("s")>>, <<Sym("a"), Sym("t")>> >>) }

\* One round of the loop of construct_ordered_mapping.
MergePair(d, pair) ==
    IF IsStr(pair[1]) /\ pair[1] = MergeKey
        THEN Update(d, pair[2])
        ELSE SetItem(d, pair[1], pair[2])

\* The loop over pairs[1..n].
RECURSIVE MergePairs(_, _)
MergePairs(pairs, n) ==
    IF n = 0 THEN Map(<<>>)
    ELSE MergePair(MergePairs(pairs, n - 1), pairs[n])

\* TemplateLoader.construct_ordered_mapping
construct_ordered_mapping(pairs) == MergePairs(pairs, Len(pairs))

\* construct_pairs: one more "key: value" of the node, a literal key being
\* written once.
ConstructPair(max) ==
    /\ pc = "reading"
    /\ Len(input) < max
    /\ \/ \E k \in SiblingKeys, v \in SiblingValues :
             /\ \A i \in 1..Len(input) : input[i][1] # k
             /\ input' = Append(input, <<k, v>>)
       \/ \E m \in SplicedMaps : input' = Append(input, <<MergeKey, m>>)
    /\ UNCHANGED <<pc, parser, template_state, reader_doc, doc>>

ConstructMapping ==
    /\ pc = "reading"
    /\ doc' = [err |-> "", val |-> construct_ordered_mapping(input)]
    /\ pc' = "constructed"
    /\ UNCHANGED <<input, parser, template_state, reader_doc>>

InitMerge ==
    /\ pc = "reading"
    /\ input = <<>>
    /\ parser = NewParser(1)
    /\ template_state = NewTemplateState
    /\ reader_doc = Map(<<>>)
    /\ doc = NoDoc

NextMerge == ConstructPair(MaxPairs) \/ ConstructMapping

SpecMerge == InitMerge /\ [][NextMerge]_vars

(***************************************************************************)
(* Properties of the merge key (SpecMerge).                                *)
(***************************************************************************)
\* The pairs of the node written with a literal key.
Siblings == SelectSeq(input, LAMBDA pair : pair[1] # MergeKey)

\* C17: the constructed mapping has no "<" key, has every key of every
\* spliced mapping at its own level, and holds every literal sibling with
\* the value it was written with, the siblings in the order they were
\* written, also when a spliced mapping has a key of the same name.
C17_MergeLeavesSiblingsUntouched ==
    pc = "constructed" =>
        /\ ~HasKey(doc.val, MergeKey)
        /\ \A i \in 1..Len(input) :
              input[i][1] = MergeKey =>
                  \A j \in 1..Len(input[i][2].map) :
                      HasKey(doc.val, input[i][2].map[j][1])
        /\ \A i \in 1..Len(Siblings) :
              /\ HasKey(doc.val, Siblings[i][1])
              /\ Get(doc.val, Siblings[i][1]) = Siblings[i][2]
        /\ \A i \in 1..Len(Siblings), j \in 1..Len(Siblings) :
              i < j => KeyIndex(doc.val.map, Siblings[i][1])
                           < KeyIndex(doc.val.map, Siblings[j][1])


(***************************************************************************)
(* The tags of a stack (SpecTags): a template made of its "Meta" alone is  *)
(* compiled, then get_tags is called.  input holds the calls: the params   *)
(* given and what the call returned or raised.                             *)
(***************************************************************************)
MaxTagCalls == 3

\* "@@MyParam"
RefTo(name) == Map(<< <<Sym("Ref"), Sym(name)>> >>)

\* The "Meta" of the templates: string and reference tags with a version,
\* a list as a tag, no tags, no name and a dict that is no reference after a
\* reference, a reference after a list.
TagMetas ==
    { Map(<< <<Sym("Name"), Sym("my-stack")>>,
             <<Sym("Version"), Sym("1.0")>>,
             <<Sym("Tags"), Map(<< <<Sym("MyKey"), Sym("My value")>>,
                                   <<Sym("MyRef"), RefTo("MyParam")>> >>)>> >>),
      Map(<< <<Sym("Name"), Sym("my-stack")>>,
             <<Sym("Tags"),
               Map(<< <<Sym("Bad"), List("list", <<Sym("v")>>)>> >>)>> >>),
      Map(<< <<Sym("Name"), Sym("my-stack")>> >>),
      Map(<< <<Sym("Version"), Sym("2")>>,
             <<Sym("Tags"),
               Map(<< <<Sym("MyRef"), RefTo("MyParam")>>,
                      <<Sym("Bad"),
                        Map(<< <<Sym("k"), Sym("v")>> >>)>> >>)>> >>),
      Map(<< <<Sym("Name"), Sym("my-stack")>>,
             <<Sym("Tags"),
               Map(<< <<Sym("Bad"), List("list", <<Sym("v")>>)>>,
                      <<Sym("MyRef"), RefTo("MyParam")>> >>)>> >>) }

\* The params given to get_tags.
TagParams ==
    { Map(<<>>),
      Map(<< <<Sym("MyParam"), Sym("MyParamValue")>> >>),
      Map(<< <<Sym("MyParam"), Sym("Other")>>, <<Sym("P"), Sym("x")>> >>) }

\* "isinstance(tag_value, dict) and 'Ref' in tag_value"
IsRefTag(tag_value) == IsMap(tag_value) /\ HasKey(tag_value, Sym("Ref"))

\* A tag value taken as it is written.
TagValueAsWritten(tag_value, params) == tag_value

\* tag_value after the test of 'Ref', once params is known to have the name.
TagValue(tag_value, params) ==
    IF IsRefTag(tag_value) THEN Get(params, Get(tag_value, Sym("Ref")))
    ELSE tag_value

\* One round of the loop of get_tags on the tag pair = <<name, value>>.
AddTag(r, pair, params) ==
    IF r.err # "" THEN r
    ELSE IF IsRefTag(pair[2]) /\ ~HasKey(params, Get(pair[2], Sym("Ref")))
        THEN [err |-> "KeyError", val |-> None]
    ELSE IF ~IsStr(TagValue(pair[2], params))
        THEN [err |-> "InvalidTagError", val |-> None]
    ELSE [err |-> "", val |-> SetItem(r.val, pair[1], TagValue(pair[2], params))]

RECURSIVE AddTags(_, _, _, _)
AddTags(r, pairs, n, params) ==
    IF n = 0 THEN r
    ELSE AddTag(AddTags(r, pairs, n - 1, params), pairs[n], params)

\* meta.get('Tags', {})
TagsOf(meta) ==
    IF HasKey(meta, Sym("Tags")) THEN Get(meta, Sym("Tags")) ELSE Map(<<>>)

\* TemplateCompiler.get_tags of the compiler c
get_tags(c, params) ==
    AddTags([err |-> "",
             val |-> Map(<< <<Sym("GenericStackName"),
                              Get(c.meta, Sym("Name"))>> >>
                         \o (IF HasKey(c.meta, Sym("Version"))
                                 THEN << <<Sym("StackVersion"),
                                           Get(c.meta, Sym("Version"))>> >>
                                 ELSE <<>>))],
            TagsOf(c.meta).map, Len(TagsOf(c.meta).map), params)

\* One call of get_tags on the compiled template.
GetTags(max) ==
    /\ pc = "compiled"
    /\ Len(input) < max
    /\ \E params \in TagParams :
          input' = Append(input, [params |-> params,
                                  returned |-> get_tags(doc, params)])
    /\ UNCHANGED <<pc, parser, template_state, reader_doc, doc>>

NextTags ==
    \/ ConstructMeta(TagMetas)
    \/ BeginCompile
    \/ ProcessSection
    \/ FinishCompile
    \/ GetTags(MaxTagCalls)

SpecTags == InitCompile /\ [][NextTags]_vars

(***************************************************************************)
(* Properties of get_tags (SpecTags).                                      *)
(***************************************************************************)
\* The tags the template declares, as pairs.
DeclaredTags == TagsOf(Get(reader_doc, Sym("Meta"))).map

\* A declared tag refers to a parameter params does not have.
RefersToAbsent(params) ==
    \E i \in 1..Len(DeclaredTags) :
        /\ IsRefTag(DeclaredTags[i][2])
        /\ ~HasKey(params, Get(DeclaredTags[i][2], Sym("Ref")))

\* A declared tag is neither a string nor a reference.
HasInvalidTag ==
    \E i \in 1..Len(DeclaredTags) :
        ~IsStr(DeclaredTags[i][2]) /\ ~IsRefTag(DeclaredTags[i][2])

\* What the returned mapping has to hold for the call with params.
HoldsDeclaredTags(tags, params) ==
    /\ Get(tags, Sym("GenericStackName"))
           = Get(Get(reader_doc, Sym("Meta")), Sym("Name"))
    /\ HasKey(tags, Sym("StackVersion"))
           <=> HasKey(Get(reader_doc, Sym("Meta")), Sym("Version"))
    /\ HasKey(tags, Sym("StackVersion")) =>
           Get(tags, Sym("StackVersion"))
               = Get(Get(reader_doc, Sym("Meta")), Sym("Version"))
    /\ \A i \in 1..Len(DeclaredTags) :
          /\ HasKey(tags, DeclaredTags[i][1])
          /\ Get(tags, DeclaredTags[i][1])
                = IF IsRefTag(DeclaredTags[i][2])
                      THEN Get(params, Get(DeclaredTags[i][2], Sym("Ref")))
                      ELSE DeclaredTags[i][2]
    /\ \A i \in 1..Len(tags.map) :
          i > 1 \/ Get(tags, Sym("GenericStackName")) # None
              => IsStr(tags.map[i][2])

MaxSectionItems == 2

\* The top-level keys the entries are written under; "Extra" is no section.
SectionKeys == {"Parameters", "Mappings", "Conditions", "Outputs", "Extra"}

\* The "Meta" of the templates.
SectionMetas ==
    { Map(<< <<Sym("Name"), Sym("t")>> >>),
      Map(<< <<Sym("Name"), Sym("t")>>,
             <<Sym("Description"), Sym("My description.")>> >>),
      Map(<< <<Sym("Description"), Sym("My description.")>>,
             <<Sym("Version"), Sym("1.0")>> >>) }

\* A resource that is an instance with an AMI name format.
AMIInstance ==
    Map(<< <<Sym("Type"), Sym("AWS::EC2::Instance")>>,
           CloudPuffMetadata(<< <<Sym("AMINameFormat"), Sym("fmt")>> >>) >>)

\* The scalar "<% If (a == x) { %> x <% } %>".
IfScalar ==
    <<TokLine, If_eq("a"), TokLine, TokText(<<"x">>), TokLine, TokClose>>

\* construct_ordered_mapping: one more entry under a top-level key.
ConstructUnder(max) ==
    \E sec \in SectionKeys : ConstructItem(sec, {ParamDoc(<<>>)}, max)

\* construct_ordered_mapping: one more resource, an instance.
ConstructInstance(max) == ConstructItem("Resources", {AMIInstance}, max)

\* construct_ordered_mapping and construct_string: one more resource, made
\* of an If.
ConstructIfResource(max) ==
    /\ pc = "reading"
    /\ EntryCount(reader_doc, Len(reader_doc.map)) < max
    /\ construct_string(IfScalar).st.err = ""
    /\ reader_doc' =
           SetItem(reader_doc, Sym("Resources"),
                   SetItem(SectionOf(reader_doc, "Resources"),
                           EntryKey(SectionOf(reader_doc, "Resources")),
                           construct_string(IfScalar).val))
    /\ template_state' =
           Finished(template_state, construct_string(IfScalar).st)
    /\ parser' = NextParser(IfScalar)
    /\ input' = Append(input, [name |-> "Resources", toks |-> IfScalar])
    /\ UNCHANGED <<pc, doc>>

NextSections ==
    \/ ConstructMeta(SectionMetas)
    \/ ConstructUnder(MaxSectionItems)
    \/ ConstructInstance(MaxSectionItems)
    \/ ConstructIfResource(MaxSectionItems)
    \/ BeginCompile
    \/ ProcessSection
    \/ FinishCompile

SpecSections == InitStack /\ [][NextSections]_vars

(***************************************************************************)
(* Properties of the compiled document (SpecSections).                     *)
(***************************************************************************)
\* The source declares an instance with an AMI name format.
DeclaresAMIInstance ==
    \E i \in 1..Len(SectionOf(reader_doc, "Resources").map) :
        SectionOf(reader_doc, "Resources").map[i][2] = AMIInstance

\* The section has something in it once the compile is over: the source
\* gave it an entry, or the compile did (a named condition, an output of an
\* AMI).
SectionHasEntries(sec) ==
    \/ SectionOf(reader_doc, sec).map # <<>>
    \/ sec = "Conditions" /\ template_state.if_conditions.map # <<>>
    \/ sec = "Outputs" /\ doc.for_amis /\ DeclaresAMIInstance

\* The top-level keys of the compiled document.
CompiledKeys == {doc.val.map[i][1] : i \in 1..Len(doc.val.map)}

\* C21: the compiled document has the format version, the description
\* exactly when the "Meta" declares one, each of the five sections exactly
\* when it is not empty after the compile (a section the source lacks
\* counts as empty), and no other key: neither "Meta" nor a key of the
\* source that is no section.
C21_OnlyNonEmptySections ==
    pc = "compiled" =>
        /\ Get(doc.val, Sym("AWSTemplateFormatVersion")) = Sym("2010-09-09")
        /\ HasKey(doc.val, Sym("Description"))
               <=> HasKey(Get(reader_doc, Sym("Meta")), Sym("Description"))
        /\ \A i \in 1..Len(SECTIONS) :
              /\ HasKey(doc.val, Sym(SECTIONS[i]))
                     <=> SectionHasEntries(SECTIONS[i])
              /\ HasKey(doc.val, Sym(SECTIONS[i]))
                     => Get(doc.val, Sym(SECTIONS[i])).map # <<>>
        /\ CompiledKeys \subseteq
               {Sym("AWSTemplateFormatVersion"), Sym("Description")}
                   \cup {Sym(SECTIONS[i]) : i \in 1..Len(SECTIONS)}

\* A described template with parameters and a key that is no section
\* compiles to the version, the description and the parameters.
C21_ExtraKeyAndEmptySectionsDropped ==
    /\ pc = "compiled"
    /\ HasKey(reader_doc, Sym("Extra"))
    /\ HasKey(reader_doc, Sym("Parameters"))
    /\ CompiledKeys = {Sym("AWSTemplateFormatVersion"), Sym("Description"),
                       Sym("Parameters")}


(***************************************************************************)
(* SpecPasses: a scalar with If blocks on expressions is parsed with no    *)
(* variable defined, processed by passes that do not resolve the           *)
(* conditions (pc "reprocessed"), then by the pass of the compiler that    *)
(* does (pc "named").  A second compiler, with a reader and a              *)
(* TemplateState of its own, then compiles the same scalar (pc "again");   *)
(* reader_doc holds what it made.                                          *)
(***************************************************************************)
MaxPassTokens == 5

\* "<% If ($$v == x) { %>", v not defined when the scalar is parsed.
If_v == TokFunc("If", <<EqualsExpr(VarRef(<<"v">>, 0), Sym("x"))>>, TRUE)

PassFuncs == {If_v, If_eq("a"), Else}

\* The pass of TemplateCompiler.load_string over the value: process_tree
\* with resolve_variables off and resolve_if_conditions on.
ResolveConditions ==
    /\ pc \in {"done", "reprocessed"}
    /\ doc.err = ""
    /\ doc' = Returned(process_tree(ByVal(doc.val), ParseStore, FALSE, TRUE))
    /\ template_state' =
           Finished(template_state,
                    process_tree(ByVal(doc.val), ParseStore, FALSE, TRUE).st)
    /\ pc' = "named"
    /\ UNCHANGED <<input, parser, reader_doc>>

\* parse_string on the lines of input by a new reader.
ParsedAgain ==
    FinishParse(ParseLines(NewParser(1), input, Len(input)), FALSE,
                StoreOf(NewTemplateState, EmptyStr, Map(<<>>), FALSE))

\* The pass of a second compiler over what its own reader parsed.
CompiledAgain ==
    process_tree(ByVal(ParsedAgain.val),
                 StoreOf(Finished(NewTemplateState, ParsedAgain.st), EmptyStr,
                         Map(<<>>), FALSE),
                 FALSE, TRUE)

\* A second TemplateCompiler loads the same scalar.
CompileAgain ==
    /\ pc = "named"
    /\ doc.err = ""
    /\ reader_doc' = Map(<< <<Sym("Conditions"), CompiledAgain.st.conds>>,
                            <<Sym("Value"), CompiledAgain.val>> >>)
    /\ pc' = "again"
    /\ UNCHANGED <<input, parser, template_state, doc>>

NextPasses ==
    \/ TextLine(MaxPassTokens)
    \/ FuncLine(PassFuncs, MaxPassTokens)
    \/ CloseLine(MaxPassTokens)
    \/ ParseEnd
    \/ Reprocess
    \/ ResolveConditions
    \/ CompileAgain

SpecPasses == InitParse /\ [][NextPasses]_vars

(***************************************************************************)
(* Properties of the passes (SpecPasses).                                  *)
(***************************************************************************)
RECURSIVE CondsIn(_)
RECURSIVE CondsInAll(_, _)
\* The conditions the IfConditions of a value wrap, in the order of the
\* walk.
CondsIn(v) ==
    CASE IsCond(v) -> <<v.cond>>
      [] IsMap(v) ->
             CondsInAll([i \in 1..Len(v.map) |-> v.map[i][2]], Len(v.map))
      [] IsList(v) -> CondsInAll(v.list, Len(v.list))
      [] OTHER -> <<>>

CondsInAll(vals, n) ==
    IF n = 0 THEN <<>> ELSE CondsInAll(vals, n - 1) \o CondsIn(vals[n])

RECURSIVE IfNamesIn(_)
RECURSIVE IfNamesInAll(_, _)
\* The first elements of the Fn::If nodes of a value, in the order of the
\* walk.
IfNamesIn(v) ==
    CASE IsMap(v) ->
             IfNamesInAll([i \in 1..Len(v.map) |->
                              IF v.map[i][1] = FnName("If")
                                  THEN List("if", v.map[i][2].list)
                                  ELSE v.map[i][2]],
                          Len(v.map))
      [] IsList(v) ->
             (IF v.tag = "if" THEN <<v.list[1]>> ELSE <<>>)
                 \o IfNamesInAll(v.list, Len(v.list))
      [] OTHER -> <<>>

IfNamesInAll(vals, n) ==
    IF n = 0 THEN <<>> ELSE IfNamesInAll(vals, n - 1) \o IfNamesIn(vals[n])

\* The If markers of input, in the order they are written.
IfMarkers == SelectSeq(input, LAMBDA tok : IsFunc(tok, "If"))

\* No close marker of input comes without an If marker still open.
ClosesMatchIfs ==
    \A n \in 1..Len(input) :
        Cardinality({i \in 1..n : input[i] = TokClose})
            <= Cardinality({i \in 1..n : IsFunc(input[i], "If")})

\* What a pass can make of the condition of an If marker.
ConditionForms(tok) ==
    IF tok = If_v
        THEN {EqualsExpr(VarRef(<<"v">>, 0), Sym("x")),
              EqualsExpr(Sym("V"), Sym("x"))}
        ELSE {tok.params[1]}

\* The names of n conditions.
NamesUpTo(n) == [i \in 1..n |-> Str(<<"IfCondition", ToString(i)>>)]

\* C22: a process_tree pass without resolve_if_conditions (the parse of
\* a scalar whose close markers match its If markers and every later pass,
\* with or without resolve_variables) adds nothing to if_conditions and
\* leaves one IfCondition per If marker,
\* only the condition it wraps being processed; the pass of the compiler
\* then names them IfCondition1, IfCondition2, ..., and a second compiler
\* with its own state gives the same scalar the same names.
C22_NamingOnlyInResolutionPass ==
    /\ pc \in {"parsing", "done", "reprocessed"}
           => template_state.if_conditions = Map(<<>>)
    /\ (pc \in {"done", "reprocessed"} /\ doc.err = "" /\ ClosesMatchIfs) =>
           /\ Len(CondsIn(doc.val)) = Len(IfMarkers)
           /\ \A c \in {CondsIn(doc.val)[i] : i \in 1..Len(IfMarkers)} :
                 \E i \in 1..Len(IfMarkers) : c \in ConditionForms(IfMarkers[i])
    /\ (pc \in {"named", "again"} /\ doc.err = "" /\ ClosesMatchIfs) =>
           /\ Keys(template_state.if_conditions) = NamesUpTo(Len(IfMarkers))
           /\ CondsIn(doc.val) = <<>>
           /\ {IfNamesIn(doc.val)[i] : i \in 1..Len(IfNamesIn(doc.val))}
                  = {NamesUpTo(Len(IfMarkers))[i] : i \in 1..Len(IfMarkers)}
    /\ (pc = "again" /\ doc.err = "") =>
           /\ Keys(Get(reader_doc, Sym("Conditions")))
                  = Keys(template_state.if_conditions)
           /\ IfNamesIn(Get(reader_doc, Sym("Value"))) = IfNamesIn(doc.val)

\* Two nested Ifs, the outer one on v, are processed by a pass that
\* resolves v, named by the compiler and named the same by a second one.
C22_TwoIfsNamedTwice ==
    /\ pc = "again"
    /\ doc.err = ""
    /\ input = <<If_v, If_eq("a"), TokText(<<"x">>), TokClose, TokClose>>
    /\ Get(template_state.if_conditions, Str(<<"IfCondition", "1">>))
           = EqualsExpr(Sym("V"), Sym("x"))
    /\ Keys(Get(reader_doc, Sym("Conditions")))
           = <<Str(<<"IfCondition", "1">>), Str(<<"IfCondition", "2">>)>>


(***************************************************************************)
(* SpecWait: CloudFormation.create_stack_and_wait and                      *)
(* update_stack_and_wait run against a stack that changes while they poll  *)
(* it.                                                                     *)
(*   reader_doc  what CloudFormation holds of the stack: its StackStatus   *)
(*               and its StackEvents, newest first                         *)
(*   parser      the locals of _wait_for_stack                             *)
(*   doc         the caller of _wait_for_stack: the operation, its         *)
(*               stack_status and the error it raised ("" when none)       *)
(*   input       the events yielded to the caller, in the order yielded    *)
(*   pc          the statement _wait_for_stack is at; "finished" after its *)
(*               loop, "returned" or "raised" when the operation is over   *)
(***************************************************************************)
MaxStackEvents == 3

\* "stack_status: Optional[StackStatusType] = None", among the statuses.
NoStatus == "None"

\* An event of the stack; in_progress tells whether the stack was in an
\* IN_PROGRESS status when the event was recorded.
StackEvent(n, physical, in_progress) ==
    [EventId |-> [id |-> n], PhysicalResourceId |-> physical,
     in_progress |-> in_progress]

\* stack_status.endswith('IN_PROGRESS')
EndsInProgress(stack_status) ==
    stack_status \in {"CREATE_IN_PROGRESS", "ROLLBACK_IN_PROGRESS",
                      "UPDATE_IN_PROGRESS",
                      "UPDATE_COMPLETE_CLEANUP_IN_PROGRESS",
                      "UPDATE_ROLLBACK_IN_PROGRESS"}

\* The statuses CloudFormation moves a stack to from a status.
StatusAfter(stack_status) ==
    CASE stack_status = "CREATE_IN_PROGRESS" ->
             {"CREATE_COMPLETE", "CREATE_FAILED", "ROLLBACK_IN_PROGRESS"}
      [] stack_status = "ROLLBACK_IN_PROGRESS" -> {"ROLLBACK_COMPLETE"}
      [] stack_status = "UPDATE_IN_PROGRESS" ->
             {"UPDATE_COMPLETE_CLEANUP_IN_PROGRESS",
              "UPDATE_ROLLBACK_IN_PROGRESS"}
      [] stack_status = "UPDATE_COMPLETE_CLEANUP_IN_PROGRESS" ->
             {"UPDATE_COMPLETE"}
      [] stack_status = "UPDATE_ROLLBACK_IN_PROGRESS" ->
             {"UPDATE_ROLLBACK_COMPLETE"}
      [] OTHER -> {}

\* The events before the one called last_event_id, whatever they are.
EventsBefore(events, last_event_id) ==
    SubSeq(events, 1,
           IF \E i \in 1..Len(events) : events[i].EventId = last_event_id
               THEN (CHOOSE i \in 1..Len(events) :
                        /\ events[i].EventId = last_event_id
                        /\ \A j \in 1..(i - 1) :
                              events[j].EventId # last_event_id) - 1
               ELSE Len(events))

\* A scan that does not stop at last_event_id.
NewEventsAll(events, last_event_id) ==
    SelectSeq(events, LAMBDA event : event.PhysicalResourceId)

\* new_events after "for event in events: ..."
NewEvents(events, last_event_id) ==
    SelectSeq(EventsBefore(events, last_event_id),
              LAMBDA event : event.PhysicalResourceId)

\* reversed(new_events)
Reversed(s) == [i \in 1..Len(s) |-> s[Len(s) + 1 - i]]

\* The status the operation has to end in.
CompleteStatus(op) ==
    IF op = "create" THEN "CREATE_COMPLETE" ELSE "UPDATE_COMPLETE"

\* "stack = self.lookup_stack(stack_name)"
LookupStack ==
    /\ pc = "lookup_stack"
    /\ parser' = [parser EXCEPT !.stack_status = reader_doc.StackStatus]
    /\ pc' = "lookup_stack_events"
    /\ UNCHANGED <<input, template_state, reader_doc, doc>>

\* "events = self.lookup_stack_events(stack_name)" and the scan for the
\* new events.
LookupStackEvents ==
    /\ pc = "lookup_stack_events"
    /\ parser' = [parser EXCEPT
                     !.events = reader_doc.StackEvents,
                     !.new_events =
                         Reversed(NewEvents(reader_doc.StackEvents,
                                            parser.last_event_id))]
    /\ pc' = IF NewEvents(reader_doc.StackEvents, parser.last_event_id) # <<>>
                 THEN "yield" ELSE "poll_end"
    /\ UNCHANGED <<input, template_state, reader_doc, doc>>

\* "yield event, stack_status" and the caller's "for event, stack_status
\* in ...: yield event"; after the last one, "last_event_id =
\* events[0]['EventId']".
YieldEvent ==
    /\ pc = "yield"
    /\ input' = Append(input, Head(parser.new_events))
    /\ doc' = [doc EXCEPT !.stack_status = parser.stack_status]
    /\ parser' = [parser EXCEPT
                     !.new_events = Tail(@),
                     !.last_event_id =
                         IF Tail(parser.new_events) = <<>>
                             THEN parser.events[1].EventId ELSE @]
    /\ pc' = IF Tail(parser.new_events) = <<>> THEN "poll_end" ELSE "yield"
    /\ UNCHANGED <<template_state, reader_doc>>

\* "if not stack_status.endswith('IN_PROGRESS'): break" and the sleep.
PollEnd ==
    /\ pc = "poll_end"
    /\ pc' = IF EndsInProgress(parser.stack_status) THEN "lookup_stack"
             ELSE "finished"
    /\ UNCHANGED <<input, parser, template_state, reader_doc, doc>>

\* The test of stack_status that follows the loop of the caller.
CheckStatus ==
    /\ pc = "finished"
    /\ doc' = [doc EXCEPT
                  !.err = IF doc.stack_status # CompleteStatus(doc.op)
                              THEN IF doc.op = "create"
                                       THEN "StackCreationError"
                                       ELSE "StackUpdateError"
                              ELSE ""]
    /\ pc' = IF doc.stack_status # CompleteStatus(doc.op) THEN "raised"
             ELSE "returned"
    /\ UNCHANGED <<input, parser, template_state, reader_doc>>

\* CloudFormation records one more event of the stack.
RecordEvent(max) ==
    /\ Len(reader_doc.StackEvents) < max
    /\ \E physical \in BOOLEAN :
          reader_doc' =
              [reader_doc EXCEPT
                  !.StackEvents =
                      <<StackEvent(Len(@) + 1, physical,
                                   EndsInProgress(reader_doc.StackStatus))>>
                          \o @]
    /\ UNCHANGED <<pc, input, parser, template_state, doc>>

\* CloudFormation moves the stack to its next status.
ChangeStatus ==
    /\ \E stack_status \in StatusAfter(reader_doc.StackStatus) :
          reader_doc' = [reader_doc EXCEPT !.StackStatus = stack_status]
    /\ UNCHANGED <<pc, input, parser, template_state, doc>>

\* After cnx.create_stack, or after cnx.update_stack on a stack that has
\* one event, the last known one.
InitWait ==
    /\ pc = "lookup_stack"
    /\ input = <<>>
    /\ template_state = NewTemplateState
    /\ \E op \in {"create", "update"} :
          /\ doc = [op |-> op, stack_status |-> NoStatus, err |-> ""]
          /\ reader_doc =
                 [StackStatus |-> IF op = "create" THEN "CREATE_IN_PROGRESS"
                                  ELSE "UPDATE_IN_PROGRESS",
                  StackEvents |-> IF op = "create" THEN <<>>
                                  ELSE <<StackEvent(1, TRUE, FALSE)>>]
          /\ parser = [stack_status |-> NoStatus, events |-> <<>>,
                       new_events |-> <<>>,
                       last_event_id |-> IF op = "create" THEN None
                                         ELSE [id |-> 1]]

NextWait ==
    \/ LookupStack
    \/ LookupStackEvents
    \/ YieldEvent
    \/ PollEnd
    \/ CheckStatus
    \/ RecordEvent(MaxStackEvents)
    \/ ChangeStatus

SpecWait == InitWait /\ [][NextWait]_vars

(***************************************************************************)
(* Properties of the wait (SpecWait).                                      *)
(***************************************************************************)
\* C23: create_stack_and_wait raises StackCreationError exactly when the
\* stack ended in a status other than CREATE_COMPLETE, however the status
\* changes and the events fall between the polls.
C23_RaisesOnlyWhenNotComplete ==
    (pc \in {"returned", "raised"} /\ doc.op = "create") =>
        (doc.err = "StackCreationError"
             <=> reader_doc.StackStatus # "CREATE_COMPLETE")

\* The events of the stack the wait has to yield: those with a physical
\* resource id that are newer than the last known one.
EventsToYield(in_progress_only) ==
    {reader_doc.StackEvents[i] : i \in
        {j \in 1..Len(reader_doc.StackEvents) :
            /\ reader_doc.StackEvents[j].PhysicalResourceId
            /\ doc.op = "update" => reader_doc.StackEvents[j].EventId.id > 1
            /\ in_progress_only => reader_doc.StackEvents[j].in_progress}}

AMIMetas ==
    { Map(<< <<Sym("Name"), Sym("t")>>,
             <<Sym("Description"), Sym("My description.")>> >>),
      Map(<< <<Sym("Name"), Sym("t")>> >>) }

\* The value CloudFormation gives an output: the id of the instance for a
\* Ref, the value as written otherwise.
StackOutputValue(value) ==
    IF IsMap(value) /\ HasKey(value, Sym("Ref"))
        THEN Str(<<"i-">> \o Get(value, Sym("Ref")).str)
        ELSE value

\* "outputs = dict((output.key, output.value) for output in stack.outputs)"
\* for the stack launched from the template.
StackOutputs(template) ==
    IF HasKey(template, Sym("Outputs"))
        THEN Map([i \in 1..Len(Get(template, Sym("Outputs")).map) |->
                     <<Get(template, Sym("Outputs")).map[i][1],
                       StackOutputValue(
                           Get(Get(template, Sym("Outputs")).map[i][2],
                               Sym("Value")))>>])
        ELSE Map(<<>>)

\* The test of the keys that skips the previous_ami_key.
ValidAMIInfoRequired(ami_info, outputs) ==
    /\ HasKey(outputs, ami_info.outputs.instance_id_key)
    /\ HasKey(outputs, ami_info.outputs.name_format_key)

\* valid_ami_info after "for output_id in ami_output_keys.values()"
ValidAMIInfo(ami_info, outputs) ==
    \A k \in DOMAIN ami_info.outputs : HasKey(outputs, ami_info.outputs[k])

\* The id of the n-th AMI the AMICreator begins.
PendingAMI(n) == Str(<<"ami-new", ToString(n)>>)

\* One round of the loop of _create_amis.
CreateOneAMI(r, ami_info, outputs, template) ==
    IF r.err # "" \/ ~ValidAMIInfo(ami_info, outputs) THEN r
    ELSE IF ~HasKey(template, Sym("Description"))
        THEN [r EXCEPT !.err = "KeyError"]
    ELSE [r EXCEPT
             !.created =
                 Append(@, [instance_id |->
                                Get(outputs, ami_info.outputs.instance_id_key),
                            name_format |->
                                Get(outputs, ami_info.outputs.name_format_key),
                            id |-> PendingAMI(Len(@) + 1)]),
             !.id_map =
                 IF HasKey(outputs, ami_info.outputs.previous_ami_key)
                     THEN SetItem(@, Get(outputs,
                                         ami_info.outputs.previous_ami_key),
                                  PendingAMI(Len(r.created) + 1))
                     ELSE @]

\* CreateAMI._create_amis over ami_outputs[1..n]
RECURSIVE create_amis(_, _, _, _)
create_amis(outputs, ami_outputs, n, template) ==
    IF n = 0 THEN [created |-> <<>>, id_map |-> Map(<<>>), err |-> ""]
    ELSE CreateOneAMI(create_amis(outputs, ami_outputs, n - 1, template),
                      ami_outputs[n], outputs, template)

\* CreateAMI.main after the compile: it exits when the compiler has no
\* ami_outputs and runs _create_amis on the launched stack otherwise.
CreateAMIs ==
    /\ pc = "compiled"
    /\ IF doc.ami_outputs = <<>>
           THEN /\ pc' = "exited"
                /\ UNCHANGED parser
           ELSE /\ parser' = create_amis(StackOutputs(doc.val),
                                         doc.ami_outputs,
                                         Len(doc.ami_outputs), doc.val)
                /\ pc' = "created"
    /\ UNCHANGED <<input, template_state, reader_doc, doc>>

\* "compiler = TemplateCompiler(for_amis=True)" and its reader.
InitAMI ==
    /\ pc = "reading"
    /\ input = <<>>
    /\ parser = NewParser(1)
    /\ template_state =
           [NewTemplateState EXCEPT
                !.variables = Map(<< <<Sym("buildingAMIs"), Sym("true")>> >>)]
    /\ doc = NewCompiler(TRUE)
    /\ reader_doc = Map(<<>>)

NextAMI ==
    \/ ConstructMeta(AMIMetas)
    \/ ConstructResource(MaxItems)
    \/ BeginCompile
    \/ ProcessSection
    \/ FinishCompile
    \/ CreateAMIs

SpecAMI == InitAMI /\ [][NextAMI]_vars

(***************************************************************************)
(* Properties of the creation of the AMIs (SpecAMI).                       *)
(***************************************************************************)
\* The declared resource a record of ami_outputs is about.
ResourceOf(ami_info) ==
    Get(SectionOf(reader_doc, "Resources"), ami_info.resource_name)

\* C25: for a described template, _create_amis begins an AMI for every
\* record of ami_outputs whose instance id and name format are among the
\* outputs of the stack, whether its resource declares a PreviousAMI or
\* not, and id_map has an entry exactly for the previous AMIs the
\* resources declare.
C25_AMIForEveryRecord ==
    (pc = "created"
         /\ HasKey(Get(reader_doc, Sym("Meta")), Sym("Description"))) =>
        /\ parser.err = ""
        /\ \A k \in 1..Len(doc.ami_outputs) :
              ValidAMIInfoRequired(doc.ami_outputs[k], StackOutputs(doc.val))
                  => \E n \in 1..Len(parser.created) :
                        parser.created[n].instance_id
                            = Str(<<"i-">>
                                  \o doc.ami_outputs[k].resource_name.str)
        /\ \A k \in 1..Len(doc.ami_outputs) :
              HasKey(DeclaredMetadata(ResourceOf(doc.ami_outputs[k])),
                     Sym("PreviousAMI"))
                  => HasKey(parser.id_map,
                            Get(DeclaredMetadata(
                                    ResourceOf(doc.ami_outputs[k])),
                                Sym("PreviousAMI")))
        /\ \A j \in 1..Len(parser.id_map.map) :
              \E k \in 1..Len(doc.ami_outputs) :
                  /\ HasKey(DeclaredMetadata(ResourceOf(doc.ami_outputs[k])),
                            Sym("PreviousAMI"))
                  /\ Get(DeclaredMetadata(ResourceOf(doc.ami_outputs[k])),
                         Sym("PreviousAMI")) = parser.id_map.map[j][1]


(***************************************************************************)
(* SpecLookup: LaunchStack._lookup_stack_params.  input holds the          *)
(* stack_param_lookups of the compiler, in the order of the parameters;    *)
(* doc what the call made: the params it returned, or the error it exited  *)
(* with.  pc is "reading" while the lookups are written, then "looked up". *)
(***************************************************************************)
MaxLookups == 3

\* A stack known to CloudFormation.
Stack(name, status, tags, outputs) ==
    [StackName |-> name, StackStatus |-> status, Tags |-> Map(tags),
     Outputs |-> Map(outputs)]

\* cnx.describe_stacks()['Stacks']: one stack for A, a deleted one and a
\* live one for B, two for C, none for D.
DescribedStacks ==
    << Stack("a-1", "CREATE_COMPLETE",
             << <<Sym("GenericStackName"), Sym("A")>>,
                <<Sym("Env"), Sym("prod")>> >>,
             << <<Sym("o"), Sym("a-o")>> >>),
       Stack("b-0", "DELETE_COMPLETE",
             << <<Sym("GenericStackName"), Sym("B")>>,
                <<Sym("Env"), Sym("prod")>> >>,
             << <<Sym("o"), Sym("old")>> >>),
       Stack("b-1", "UPDATE_COMPLETE",
             << <<Sym("GenericStackName"), Sym("B")>>,
                <<Sym("Env"), Sym("prod")>> >>,
             << <<Sym("o"), Sym("b-o")>>, <<Sym("q"), Sym("b-q")>> >>),
       Stack("c-1", "CREATE_COMPLETE",
             << <<Sym("GenericStackName"), Sym("C")>>,
                <<Sym("Env"), Sym("prod")>> >>,
             << <<Sym("o"), Sym("c-o")>> >>),
       Stack("c-2", "CREATE_COMPLETE",
             << <<Sym("GenericStackName"), Sym("C")>>,
                <<Sym("Env"), Sym("test")>> >>,
             << <<Sym("o"), Sym("c-o2")>> >>) >>

\* The params given to _lookup_stack_params.
GivenParams == Map(<< <<Sym("Env"), Sym("prod")>> >>)

\* The lookup_info a parameter can have.
LookupInfos ==
    [StackName : {Sym("A"), Sym("B"), Sym("C"), Sym("D")},
     OutputName : {Sym("o"), Sym("q")},
     MatchStackTags : {<<>>, <<Sym("Env")>>}]

\* CloudFormation._get_stack_has_tags
get_stack_has_tags(stack, tags) ==
    \A i \in 1..Len(tags.map) :
        /\ HasKey(stack.Tags, tags.map[i][1])
        /\ Get(stack.Tags, tags.map[i][1]) = tags.map[i][2]

\* CloudFormation.lookup_stacks(statuses=(...), tags=tags)
lookup_stacks(tags) ==
    SelectSeq(DescribedStacks,
              LAMBDA stack :
                  /\ stack.StackStatus \in {"CREATE_COMPLETE",
                                            "UPDATE_COMPLETE",
                                            "UPDATE_ROLLBACK_COMPLETE"}
                  /\ get_stack_has_tags(stack, tags))

\* required_tags of a lookup_info, the params being params.
RequiredTags(lookup_info, params) ==
    Map(<< <<Sym("GenericStackName"), lookup_info.StackName>> >>
        \o [i \in 1..Len(lookup_info.MatchStackTags) |->
               <<lookup_info.MatchStackTags[i],
                 Get(params, lookup_info.MatchStackTags[i])>>])

\* The stacks whose outputs are searched: "stacks[0].outputs", stacks being
\* what the last lookup_stacks returned.
StacksSearched(l, key) ==
    IF HasKey(l.stack_outputs, key) THEN l.stacks ELSE lookup_stacks(key)

\* The end of a round: the output is looked for in the stack searched.
FindOutput(l, param_name, lookup_info, key) ==
    IF HasKey(StacksSearched(l, key)[1].Outputs, lookup_info.OutputName)
        THEN [l EXCEPT
                 !.stacks = StacksSearched(l, key),
                 !.stack_outputs =
                     SetItem(@, key, lookup_stacks(key)[1].Outputs),
                 !.params =
                     SetItem(@, param_name,
                             Get(StacksSearched(l, key)[1].Outputs,
                                 lookup_info.OutputName))]
    ELSE IF HasKey(l.params, param_name)
        THEN [l EXCEPT
                 !.stacks = StacksSearched(l, key),
                 !.stack_outputs =
                     SetItem(@, key, lookup_stacks(key)[1].Outputs)]
    ELSE [l EXCEPT !.err = "no output"]

\* One round of the loop of _lookup_stack_params.
LookupParam(l, param_name, lookup_info, key) ==
    IF l.err # "" THEN l
    ELSE IF ~HasKey(l.stack_outputs, key) /\ Len(lookup_stacks(key)) = 0
        THEN [l EXCEPT !.err = "no stack"]
    ELSE IF ~HasKey(l.stack_outputs, key) /\ Len(lookup_stacks(key)) # 1
        THEN [l EXCEPT !.err = "too many stacks"]
    ELSE FindOutput(l, param_name, lookup_info, key)

\* The name of the n-th parameter.
ParamName(n) == Str(<<"p", ToString(n)>>)

\* LaunchStack._lookup_stack_params over the first n lookups.
RECURSIVE lookup_stack_params(_, _, _)
lookup_stack_params(params, lookups, n) ==
    IF n = 0
        THEN [params |-> params, stack_outputs |-> Map(<<>>),
              stacks |-> <<>>, err |-> ""]
    ELSE LookupParam(lookup_stack_params(params, lookups, n - 1),
                     ParamName(n), lookups[n],
                     RequiredTags(lookups[n],
                                  lookup_stack_params(params, lookups,
                                                      n - 1).params))

\* compiler.stack_param_lookups gets one more parameter.
AddLookup(max) ==
    /\ pc = "reading"
    /\ Len(input) < max
    /\ \E lookup_info \in LookupInfos : input' = Append(input, lookup_info)
    /\ UNCHANGED <<pc, parser, template_state, reader_doc, doc>>

\* "params = self._lookup_stack_params(params, compiler)"
LookupStackParams ==
    /\ pc = "reading"
    /\ doc' = [err |-> lookup_stack_params(GivenParams, input, Len(input)).err,
               val |-> lookup_stack_params(GivenParams, input,
                                           Len(input)).params]
    /\ pc' = "looked up"
    /\ UNCHANGED <<input, parser, template_state, reader_doc>>

InitLookup ==
    /\ pc = "reading"
    /\ input = <<>>
    /\ parser = NewParser(1)
    /\ template_state = NewTemplateState
    /\ reader_doc = Map(<<>>)
    /\ doc = NoDoc

NextLookup == AddLookup(MaxLookups) \/ LookupStackParams

SpecLookup == InitLookup /\ [][NextLookup]_vars

(***************************************************************************)
(* Properties of the lookup (SpecLookup).                                  *)
(***************************************************************************)
\* The live stacks that have the stack name and the tag values of the n-th
\* lookup.
MatchingStacks(n) == lookup_stacks(RequiredTags(input[n], GivenParams))

\* The n-th lookup can be answered: one stack matches and has the output.
Answerable(n) ==
    /\ Len(MatchingStacks(n)) = 1
    /\ HasKey(MatchingStacks(n)[1].Outputs, input[n].OutputName)

\* C26: every parameter with a lookup gets the value of the named output
\* of the one stack that matches its own stack name and tags, whatever the
\* order of the parameters and whichever stacks were looked up or cached
\* before; when a lookup has no stack, several stacks or no such output
\* the call exits with an error.
C26_EachParamFromItsOwnStack ==
    pc = "looked up" =>
        IF \A n \in 1..Len(input) : Answerable(n)
            THEN /\ doc.err = ""
                 /\ \A n \in 1..Len(input) :
                       Get(doc.val, ParamName(n))
                           = Get(MatchingStacks(n)[1].Outputs,
                                 input[n].OutputName)
            ELSE doc.err # ""


(***************************************************************************)
(* SpecItems: TemplateState.collapse_variables on one list.  input is the  *)
(* list of items as it is built, template_state.variables the bindings     *)
(* the pass resolves against; pc is "reading" while items are added and    *)
(* "collapsed" once the pass ran; doc is the exception raised and the list *)
(* returned, the objects it holds as the pass left them; parser.status is  *)
(* the type of the list that was collapsed.                                *)
(***************************************************************************)
MaxCollapsed == 3

\* The bindings: v is a string, a a list.
CollapseScope ==
    Map(<< <<Sym("v"), Sym("V")>>,
           <<Sym("a"), List("list", <<Sym("p")>>)>> >>)

\* The items: a string, a reference mapping, a nested list, a reference to
\* v, to a and to the unknown name u.
CollapseItems ==
    { Sym("x"), RefTo("X"), List("list", <<Sym("p")>>),
      VarRef(<<"v">>, 1), VarRef(<<"a">>, 1), VarRef(<<"u">>, 1) }

\* The types of list the pass is given.
CollapseTags == {"list", "vars", "uncoll"}

ReadItem(max) ==
    /\ pc = "reading"
    /\ Len(input) < max
    /\ \E item \in CollapseItems : input' = Append(input, item)
    /\ UNCHANGED <<pc, parser, template_state, reader_doc, doc>>

\* The store in which the list of the given type is collapsed.
CollapseStore(tag) ==
    StoreOf(template_state, List(tag, input), template_state.variables, FALSE)

\* The list returned in the store st, each object as it is now.
ResultValues(c) == [i \in 1..Len(c.result) |-> Val(c.result[i], c.st)]

\* self.collapse_variables(items, variables)
Collapse ==
    /\ pc = "reading"
    /\ input # <<>>
    /\ \E tag \in CollapseTags :
          LET c == collapse_variables(Handle("t", <<>>), CollapseStore(tag))
          IN  /\ doc' = [err |-> c.st.err,
                         val |-> IF c.st.err = ""
                                     THEN List(tag, ResultValues(c))
                                     ELSE EmptyStr]
              /\ template_state' =
                     [Finished(template_state, c.st)
                         EXCEPT !.variables = c.st.scope]
              /\ parser' = [parser EXCEPT !.status = tag]
    /\ pc' = "collapsed"
    /\ UNCHANGED <<input, reader_doc>>

InitItems ==
    /\ pc = "reading"
    /\ input = <<>>
    /\ parser = NewParser(1)
    /\ template_state = [NewTemplateState EXCEPT !.variables = CollapseScope]
    /\ reader_doc = Map(<<>>)
    /\ doc = NoDoc

NextItems == ReadItem(MaxCollapsed) \/ Collapse

SpecItems == InitItems /\ [][NextItems]_vars

\* What an item stands for in the output: the value bound to a reference
\* that resolves, the item itself otherwise.
ItemValue(item) ==
    IF IsVar(item) /\ HasKey(CollapseScope, Sym(item.var[1]))
        THEN Get(CollapseScope, Sym(item.var[1]))
        ELSE item

IsNotStr(v) == ~IsStr(v)

\* The non-string items a list holds, in order.
NonStrings(items) == SelectSeq(items, IsNotStr)

\* C27: the pass raises nothing, the non-string items of the input (a
\* reference mapping, a nested list, an unresolved reference, the list a
\* reference resolves to) are in the output unchanged and in their order,
\* and the bindings hold the values they held before the pass.
C27_OnlyStringsConcatenated ==
    pc = "collapsed" =>
        /\ doc.err = ""
        /\ NonStrings(doc.val.list)
               = NonStrings([i \in 1..Len(input) |-> ItemValue(input[i])])
        /\ template_state.variables = CollapseScope


(***************************************************************************)
(* SpecDeclared: TemplateCompiler.load_string on a template that declares  *)
(* conditions of its own.  As SpecCompile, with entries of the Conditions  *)
(* section that map a name to a condition expression.                      *)
(***************************************************************************)
MaxDeclared == 1

\* The names a template gives its conditions: IsProd, IfCondition1 and
\* IfCondition2.
DeclaredNames == {Sym("IsProd"), CondName(1), CondName(2)}

\* The expressions it declares: "Fn::Equals: [env, prod]" and
\* "Fn::Equals: [env, dev]".
DeclaredExprs ==
    { Map(<< <<FnName("Equals"), List("list", <<Sym("env"), Sym(w)>>)>> >>) :
          w \in {"prod", "dev"} }

\* The conditions declared so far.
DeclaredCount ==
    Cardinality({i \in 1..Len(SectionOf(reader_doc, "Conditions").map) :
                    \E n \in DeclaredNames :
                        SectionOf(reader_doc, "Conditions").map[i][1] = n})

\* construct_ordered_mapping: one more "name: expression" entry of the
\* Conditions section.
ConstructCondition(max) ==
    /\ pc = "reading"
    /\ DeclaredCount < max
    /\ \E n \in DeclaredNames, expr \in DeclaredExprs :
          /\ ~HasKey(SectionOf(reader_doc, "Conditions"), n)
          /\ reader_doc' =
                 SetItem(reader_doc, Sym("Conditions"),
                         SetItem(SectionOf(reader_doc, "Conditions"),
                                 n, expr))
    /\ UNCHANGED <<pc, input, parser, template_state, doc>>

NextDeclared ==
    \/ ConstructMeta(CompileMetas)
    \/ ConstructSectionEntry(MaxEntries)
    \/ ConstructCondition(MaxDeclared)
    \/ BeginCompile
    \/ ProcessSection
    \/ FinishCompile

SpecDeclared == InitCompile /\ [][NextDeclared]_vars

\* The Conditions section the template declared and the compiled one.
UserConditions == SectionOf(reader_doc, "Conditions")

CompiledConditions == SectionOf(doc.val, "Conditions")

\* C28: after a compile every condition the template declared is in the
\* Conditions section under its name, with the expression it was declared
\* with when that expression holds no If block, and every materialized
\* condition is there under a name no declared condition has.
C28_DeclaredConditionsKept ==
    pc = "compiled" =>
        /\ \A i \in 1..Len(UserConditions.map) :
              /\ HasKey(CompiledConditions, UserConditions.map[i][1])
              /\ CondPaths(UserConditions.map[i][2], <<>>) = <<>> =>
                    Get(CompiledConditions, UserConditions.map[i][1])
                        = UserConditions.map[i][2]
        /\ \A k \in 1..Len(template_state.if_conditions.map) :
              /\ ~HasKey(UserConditions, template_state.if_conditions.map[k][1])
              /\ HasKey(CompiledConditions,
                        template_state.if_conditions.map[k][1])
              /\ Get(CompiledConditions, template_state.if_conditions.map[k][1])
                    = template_state.if_conditions.map[k][2]


(***************************************************************************)
(* The tokens parse reads and the operands it accepts (SpecExpr).          *)
(***************************************************************************)
RECURSIVE HoldsNone(_)
\* The tree has None in the place of an operand.
HoldsNone(v) ==
    IF v = None THEN TRUE
    ELSE IF ~IsMap(v) THEN FALSE
    ELSE HoldsNone(Operands(v)[1]) \/ HoldsNone(Operands(v)[2])

\* C29: when parse returns, without raising, every token of the expression
\* was read (no ")" and no value is left where the parser stopped) and no
\* operand of the result is the None that stands for a ")" met where a
\* value was expected.
C29_ConsumesEveryTokenOrRaises ==
    (pc = "parsed" /\ doc.err = "") =>
        /\ parse(input).pos = Len(input) + 1
        /\ ~HoldsNone(doc.val)


(***************************************************************************)
(* SpecImport: TemplateReader.load_file on files that import one another.  *)
(* Each file holds a "--- !vars" document and a "--- !macros" document     *)
(* defining a variable and a macro named after the file, and a document    *)
(* with one "!import" of the files it names.  reader_doc maps each file    *)
(* to the list of the files it imports and input is the file given to the  *)
(* outermost load_file.  parser is the stack of the load_file calls in     *)
(* progress, one frame per reader: the file, the index of the next         *)
(* filename of its "!import" and the reader's template_state.  pc is       *)
(* "writing" while the files are written, then "loading", and "loaded" or  *)
(* "failed" when the outermost call returned or raised; template_state is  *)
(* then the state of the outermost reader and doc.err the exception.       *)
(***************************************************************************)
MaxImports == 3

\* The depth of nested load_file calls at which the interpreter's stack is
\* exhausted: more than the files there are, so that only a chain of
\* imports that comes back to a file gets there.
MaxDepth == 4

Files == {"t", "a", "b"}

\* TemplateState.__init__, the file sets included
NewFileState ==
    [variables |-> Map(<<>>), macros |-> Map(<<>>),
     unresolved_variables |-> {}, if_conditions |-> Map(<<>>),
     imported_files |-> {}, embedded_files |-> {}]

\* TemplateState.update
update(self, other_state) ==
    [self EXCEPT
        !.macros = Update(@, other_state.macros),
        !.variables = Update(@, other_state.variables),
        !.unresolved_variables = @ \cup other_state.unresolved_variables,
        !.imported_files = @ \cup other_state.imported_files,
        !.embedded_files = @ \cup other_state.embedded_files]

\* The filenames of the "!import" of a file: construct_scalar(node).split()
ImportsOf(f) == Get(reader_doc, Sym(f)).list

Range(s) == {s[i] : i \in 1..Len(s)}

\* The number of filenames the files import, all together.
RECURSIVE ImportCountUpTo(_)
ImportCountUpTo(n) ==
    IF n = 0 THEN 0
    ELSE ImportCountUpTo(n - 1) + Len(reader_doc.map[n][2].list)

ImportCount == ImportCountUpTo(Len(reader_doc.map))

\* One more filename in the "!import" of a file.
WriteImport(max) ==
    /\ pc = "writing"
    /\ ImportCount < max
    /\ \E f \in Files, g \in Files :
          reader_doc' =
              SetItem(reader_doc, Sym(f),
                      List("list", Append(ImportsOf(f), Sym(g))))
    /\ UNCHANGED <<pc, input, parser, template_state, doc>>

\* A reader that loaded the "!vars" and "!macros" documents of the file f
\* and constructs its "!import": TemplateReader(), load_string up to
\* "self.template_state.imported_files.update(filenames)".
ReaderOf(f) ==
    [file |-> f, next |-> 1,
     state |->
         [NewFileState EXCEPT
             !.variables = Map(<< <<Sym(f), Sym(f)>> >>),
             !.macros =
                 Map(<< <<Sym(f), Map(<< <<Sym("content"), Sym(f)>> >>)>> >>),
             !.imported_files = Range(ImportsOf(f))]]

\* reader = TemplateReader(); reader.load_file(template_file)
LoadFile ==
    /\ pc = "writing"
    /\ parser' = <<ReaderOf(input)>>
    /\ pc' = "loading"
    /\ UNCHANGED <<input, template_state, reader_doc, doc>>

\* The filename the innermost reader imports next (None after the last).
NextImport(frame) ==
    IF frame.next <= Len(ImportsOf(frame.file))
        THEN ImportsOf(frame.file)[frame.next]
        ELSE None

\* construct_import, "reader = TemplateReader(); reader.load_file(filename)"
ImportFile ==
    /\ pc = "loading"
    /\ NextImport(Last(parser)) # None
    /\ Len(parser) < MaxDepth
    /\ parser' = Append(parser, ReaderOf(NextImport(Last(parser)).str[1]))
    /\ UNCHANGED <<pc, input, template_state, reader_doc, doc>>

\* The same call when the stack is exhausted: the error ends every call in
\* progress.
StackExhausted ==
    /\ pc = "loading"
    /\ NextImport(Last(parser)) # None
    /\ Len(parser) >= MaxDepth
    /\ doc' = [err |-> "RecursionError", val |-> EmptyStr]
    /\ parser' = <<>>
    /\ pc' = "failed"
    /\ UNCHANGED <<input, template_state, reader_doc>>

\* load_file of an imported file returns:
\* "self.template_state.update(reader.template_state)"
ImportReturns ==
    /\ pc = "loading"
    /\ NextImport(Last(parser)) = None
    /\ Len(parser) > 1
    /\ parser' =
           Append(Front(Front(parser)),
                  [parser[Len(parser) - 1] EXCEPT
                      !.next = @ + 1,
                      !.state = update(@, Last(parser).state)])
    /\ UNCHANGED <<pc, input, template_state, reader_doc, doc>>

\* The outermost load_file returns.
LoadReturns ==
    /\ pc = "loading"
    /\ NextImport(Last(parser)) = None
    /\ Len(parser) = 1
    /\ template_state' = parser[1].state
    /\ doc' = [err |-> "", val |-> EmptyStr]
    /\ parser' = <<>>
    /\ pc' = "loaded"
    /\ UNCHANGED <<input, reader_doc>>

InitImport ==
    /\ pc = "writing"
    /\ input = "t"
    /\ parser = <<>>
    /\ template_state = NewFileState
    /\ reader_doc = Map(<< <<Sym("t"), List("list", <<>>)>>,
                           <<Sym("a"), List("list", <<>>)>>,
                           <<Sym("b"), List("list", <<>>)>> >>)
    /\ doc = NoDoc

\* The steps of a load in progress.
LoadStep == ImportFile \/ StackExhausted \/ ImportReturns \/ LoadReturns

NextImports == WriteImport(MaxImports) \/ LoadFile \/ LoadStep

\* A load in progress goes on: the interpreter runs it to its end.
SpecImport ==
    InitImport /\ [][NextImports]_vars /\ WF_vars(LoadStep)

\* The files reached from the files of S by at most n imports.
RECURSIVE ImportedWithin(_, _)
ImportedWithin(S, n) ==
    IF n = 0 THEN {}
    ELSE LET direct == UNION {Range(ImportsOf(f)) : f \in S}
         IN  direct \cup ImportedWithin({g.str[1] : g \in direct}, n - 1)

\* The files the loaded file imports, directly or through other files.
TransitiveImports == ImportedWithin({input}, Cardinality(Files))

\* Every file imported directly or transitively left its variable and its
\* macro in the outermost state and is in imported_files.
AllImportsMerged ==
    \A g \in TransitiveImports :
        /\ HasKey(template_state.variables, g)
        /\ HasKey(template_state.macros, g)
        /\ g \in template_state.imported_files

\* C30: a load_file that was called returns, whatever the files import (a
\* file itself, or two files each other); and when it returned, the
\* variables and macros of every file imported directly or through other
\* files are in the state of the outermost reader, and every such file is
\* in its imported_files.
C30_ImportsTerminateAndMerge ==
    /\ (pc = "loading") ~> (pc = "loaded")
    /\ [](pc = "loaded" => AllImportsMerged)

=============================================================================
